---- MODULE Spec2Model ----
(***************************************************************************)
(* A model of the care-record summarisation service: the bounded-          *)
(* concurrency summarisation orchestrator (processSummaries, summarizeOne),*)
(* the privacy mask, the text segmentation (splitByPerson), the            *)
(* spreadsheet record merge (extractFromExcel) and the multi-file          *)
(* aggregation (summarizeAndMergeExcelFiles, mergeExcelFiles).             *)
(*                                                                         *)
(* Japanese text is written in ASCII transliteration: "YoyakuShippai" is   *)
(* the failure marker (youyaku shippai, "summary failed"), "san", "sama"   *)
(* and "shi" are the three honorifics.                                     *)
(***************************************************************************)
EXTENDS Integers, Sequences, FiniteSets, TLC

VARIABLES
    variant,         \* which processSummaries is linked: "summarizer" or "deepseek"
    apiKey,          \* the openaiApiKey argument: "valid" or "invalid" (missing or < 10 chars)
    entries,         \* Array.from(sections.entries()): the input SectionMap in order
    maxConcurrency,  \* the maxConcurrency argument
    pc,              \* position of processSummaries
    i,               \* the batch loop's index
    item,            \* per entry of the current batch: the state of its async closure
    summaries,       \* the result Map, in insertion order
    failed,          \* history: the entries one of whose remote calls has thrown
    mName,           \* summarizeOne's name argument, a sequence of characters
    mContent,        \* summarizeOne's content argument, a sequence of characters
    mPc,             \* "init", then "sent" once the first request is built and sent
    mRequest,        \* the user prompt sent: the name field and the record body
    xSheets,         \* per worksheet, the records extractRecordsFromSheet returns for it
    xPc,             \* position of extractFromExcel
    xNext,           \* the worksheet the loop of extractFromExcel is at
    xSections,       \* the SectionMap extractFromExcel builds, in insertion order
    xFound,          \* totalRecordsFound
    sVariant,        \* which splitByPerson is linked: "current" or "legacy"
    sText,           \* splitByPerson's text argument, a sequence of lines
    sPc,             \* position of splitByPerson
    sFamily,         \* the header pattern chosen (0: none)
    sMatches,        \* bestMatches (current) or matches (legacy)
    sI,              \* the index of the loop over the matches
    sSections,       \* the SectionMap splitByPerson builds, in insertion order
    sPath,           \* history: what produced the result: "pattern", "chunks" or "single"
    aVariant,        \* the multi-file mode: "summarize" or "merge"
    aFiles,          \* the files argument, in the order given
    aPc,             \* position of summarizeAndMergeExcelFiles / mergeExcelFiles
    aNext,           \* the file the extraction loop is at
    aAll,            \* allSections with sourceTracking (summarize), allPersonData (merge)
    aResult,         \* per name: its records in order and the combined content string
    rHandler,        \* the route handler of the request: "process000", "upload001", "process003"
    rKeySet,         \* whether OPENAI_API_KEY is configured
    rFile,           \* the one uploaded file
    rPc,             \* position of the handler
    rText,           \* the text extractTextFromPDF returned
    rSplitInput,     \* history: the text handed to splitByPerson
    rSections,       \* sections.size
    rCalls,          \* history: remote model calls issued
    rWorkbook,       \* history: whether buildExcel has produced a workbook
    rResponse,       \* the response of the handler
    wSheet,          \* the worksheet given to extractRecordsFromSheet
    wPc,             \* position in extractRecordsFromSheet
    wRan,            \* history: the strategies that have run, in order
    wRecords,        \* the records returned
    nVariant,        \* which assignUniqueSheetName runs: "generator" or "merge"
    nSeen,           \* the Map seen: key -> count (0: no entry)
    nCalls,          \* history: calls made so far, per base name
    nNames,          \* history: the worksheet names returned so far
    nClash,          \* history: some call returned a name that was returned before
    nLast,           \* history: the last call, its base, how many-th call of it, and its result
    tContent,        \* the content the cap is applied to, then its result
    tPrev,           \* history: the content before the last application
    tApplied,        \* history: how often the cap has been applied
    lContent,        \* the content of summarizeOne, as runs of character classes
    lInput,          \* history: the content summarizeOne was called with
    lPc,             \* position in the size-limiting step of summarizeOne
    oDone,           \* history: the entries in the order their closures settled
    oBuilt,          \* buildExcel has run on the returned map
    oSheets,         \* the worksheets of the workbook, in the order they were added
    cSetting,        \* the MAX_CONCURRENCY setting, a string
    cConc,           \* maxConcurrency as processSummaries receives it, a number
    cN,              \* entries.length
    cI,              \* the loop variable i, a number
    cPc,             \* position of the handler: "init", "loop", "returned"
    cOut,            \* the entries that have a result in summaries, in the map's order
    cTurns,          \* history: turns of the batch loop so far
    qKeySet,         \* whether OPENAI_API_KEY is configured
    qPc,             \* position of the handler in a multi-file request
    qCalls,          \* history: the names summarizeOne was called for
    qSheets,         \* the worksheets of the output workbook, in order
    qResponse        \* the response of the handler

sumVars == <<variant, apiKey, entries, maxConcurrency, pc, i, item, summaries, failed>>

maskVars == <<mName, mContent, mPc, mRequest>>

excelVars == <<xSheets, xPc, xNext, xSections, xFound>>

splitVars == <<sVariant, sText, sPc, sFamily, sMatches, sI, sSections, sPath>>

aggVars == <<aVariant, aFiles, aPc, aNext, aAll, aResult>>

routeVars == <<rHandler, rKeySet, rFile, rPc, rText, rSplitInput, rSections, rCalls,
               rWorkbook, rResponse>>

sheetVars == <<wSheet, wPc, wRan, wRecords>>

nameVars == <<nVariant, nSeen, nCalls, nNames, nClash, nLast>>

capVars == <<tContent, tPrev, tApplied>>

limitVars == <<lContent, lInput, lPc>>

orderVars == <<oDone, oBuilt, oSheets>>

concVars == <<cSetting, cConc, cN, cI, cPc, cOut, cTurns>>

reqVars == <<qKeySet, qPc, qCalls, qSheets, qResponse>>

vars ==
    <<sumVars, maskVars, excelVars, splitVars, aggVars,
      routeVars, sheetVars, nameVars, capVars, limitVars, orderVars, concVars, reqVars>>

-----------------------------------------------------------------------------
(* Bounds of the model *)

\* Most entries in the input SectionMap.
MaxEntries == 3

\* Largest concurrency limit tried.
MaxConc == 3

\* Longest name, honorific not counted, and longest content given to the mask.
MaxBaseLen == 2

MaxMaskContentLen == 3

\* Most entries and largest concurrency limit in the runs checked for
\* termination.
LiveMaxEntries == 3

LiveMaxConc == 2

\* Most records in the worksheets of one workbook.
MaxRecords == 3

\* Most lines in the text given to splitByPerson.
MaxLines == 4

\* Most files in one multi-file request.
MaxFiles == 3

-----------------------------------------------------------------------------
(* Small helpers *)

Min(a, b) == IF a < b THEN a ELSE b

Max(a, b) == IF a > b THEN a ELSE b

Range(s) == {s[k] : k \in DOMAIN s}

-----------------------------------------------------------------------------
(* The summarisation orchestrator *)

\* Lower and upper end of the accepted summary length.
MinSummaryChars == 200

MaxSummaryChars == 300

\* length of the fallback text used when the model returns no content
FallbackChars == 11

\* Names a SectionMap is filled with, in insertion order.
NamePool == <<"n1", "n2", "n3", "n4", "n5">>

\* The first n names as entries.  regexOk is FALSE for the entry at `bad`
\* (none when bad = 0): a name whose honorific-stripped form is no valid
\* regular expression, such as "Sato(sama", for which
\* new RegExp(nameBase, 'g') throws before any request is made.
EntriesOf(n, bad) == [k \in 1..n |-> [name |-> NamePool[k], regexOk |-> (k # bad)]]

\* What a remote chat.completions.create call can produce: a thrown error,
\* or a response whose choices[0].message.content has `chars` characters
\* that are neither newlines nor surrounding whitespace, `nl` interior
\* newlines and `pad` characters of surrounding whitespace.
Responses ==
    { [ok |-> FALSE, err |-> "invalid_api_key", chars |-> 0, nl |-> 0, pad |-> 0],
      [ok |-> FALSE, err |-> "nonError", chars |-> 0, nl |-> 0, pad |-> 0],
      [ok |-> TRUE, err |-> "", chars |-> 0, nl |-> 0, pad |-> 1],
      [ok |-> TRUE, err |-> "", chars |-> MinSummaryChars - 1, nl |-> 1, pad |-> 0],
      [ok |-> TRUE, err |-> "", chars |-> MinSummaryChars, nl |-> 0, pad |-> 0],
      [ok |-> TRUE, err |-> "", chars |-> MaxSummaryChars, nl |-> 1, pad |-> 1],
      [ok |-> TRUE, err |-> "", chars |-> MaxSummaryChars + 1, nl |-> 0, pad |-> 0] }

\* What the corrective call is answered with in the model: an error, no
\* content, a text within the band and a text still outside it.
AdjustResponses ==
    {r \in Responses :
        \/ ~r.ok /\ r.err = "invalid_api_key"
        \/ r.ok /\ r.chars \in {0, MinSummaryChars, MaxSummaryChars + 1}}

\* A summary string.  kind "YoyakuShippai" is a string that begins with the
\* failure marker; kind "text" is the trimmed content of the response to
\* call `call` made for `by`; kind "fallback" is the fixed fallback text.
Text(by, call, r) ==
    [kind |-> "text", by |-> by, call |-> call, chars |-> r.chars, nl |-> r.nl, msg |-> ""]

FallbackText ==
    [kind |-> "fallback", by |-> "", call |-> 0, chars |-> FallbackChars, nl |-> 0, msg |-> ""]

FailureMarker(msg) ==
    [kind |-> "YoyakuShippai", by |-> "", call |-> 0, chars |-> 0, nl |-> 0, msg |-> msg]

\* response.choices[0]?.message?.content?.trim() || orElse
ContentOr(by, call, r, orElse) ==
    IF r.chars + r.nl = 0 THEN orElse ELSE Text(by, call, r)

\* summary.length, newlines counted.
CharCount_WithNewlines(summary) == summary.chars + summary.nl

\* summary.replace(/\n/g, '').length
CharCount(summary) == summary.chars

NeedsAdjust(summary) ==
    CharCount(summary) < MinSummaryChars \/ CharCount(summary) > MaxSummaryChars

\* The catch block of summarizeOne: the string returned for a thrown error.
CatchMessage(v, err) ==
    IF v = "summarizer"
    THEN IF err = "nonError" THEN "Unknown error" ELSE err
    ELSE CASE err = "nonError" -> "fumei na error"
           [] err = "invalid_api_key" -> "API key ga mukou"
           [] OTHER -> err

\* A summarizeOne without its try/catch: the error leaves the function.
Caught_Rethrows(v, it, err) ==
    [it EXCEPT !.st = "rejected", !.err = err]

\* The closure's state after summarizeOne caught an error.
Caught(v, it, err) ==
    [it EXCEPT !.st = "resolved", !.summary = FailureMarker(CatchMessage(v, err))]

\* The async arrow function around summarizeOne.  The deepseek build wraps
\* the call in a try/catch of its own; the summarizer build lets an error
\* of summarizeOne reject the closure's promise.
Arrow(v, it) ==
    IF v = "deepseek" /\ it.st = "rejected"
    THEN [it EXCEPT !.st = "resolved",
                    !.summary = FailureMarker(IF it.err = "nonError" THEN "Unknown error" ELSE it.err)]
    ELSE it

NoText ==
    [kind |-> "none", by |-> "", call |-> 0, chars |-> 0, nl |-> 0, msg |-> ""]

PendingItem ==
    [st |-> "pending", summary |-> NoText, first |-> NoText,
     calls |-> 0, adjustCalls |-> 0, err |-> ""]

\* summarizeOne up to its first await: the mask is built and the first
\* request is sent, or building the mask throws and the error is caught.
Launch(v, e) ==
    IF e.regexOk
    THEN [PendingItem EXCEPT !.st = "call1", !.calls = 1]
    ELSE Caught(v, PendingItem, "Invalid regular expression")

\* summarizeOne from the first response to its next await or its return.
AfterFirst(v, e, it, r) ==
    IF ~r.ok THEN Caught(v, it, r.err)
    ELSE LET s == ContentOr(e.name, 1, r, FallbackText) IN
         IF NeedsAdjust(s)
         THEN [it EXCEPT !.st = "call2", !.summary = s, !.first = s,
                         !.calls = 2, !.adjustCalls = @ + 1]
         ELSE [it EXCEPT !.st = "resolved", !.summary = s, !.first = s]

\* summarizeOne from the corrective response to its return.
AfterAdjust(v, e, it, r) ==
    IF ~r.ok THEN Caught(v, it, r.err)
    ELSE [it EXCEPT !.st = "resolved", !.summary = ContentOr(e.name, 2, r, it.summary)]

\* A slice one entry too wide.
BatchAt_OneMore(from, n, mc) == {k \in 1..n : from < k /\ k <= from + mc + 1}

\* entries.slice(i, i + maxConcurrency), as the set of 1-based indices.
BatchAt(from, n, mc) == {k \in 1..n : from < k /\ k <= from + mc}

Batch == BatchAt(i, Len(entries), maxConcurrency)

\* summaries.set(name, summary) on the insertion-ordered Map.
MapSet(m, name, s) ==
    IF \E k \in DOMAIN m : m[k].name = name
    THEN [k \in DOMAIN m |-> IF m[k].name = name THEN [name |-> name, summary |-> s] ELSE m[k]]
    ELSE Append(m, [name |-> name, summary |-> s])

MapHas(m, name) == \E k \in DOMAIN m : m[k].name = name

MapGet(m, name) == (CHOOSE k \in DOMAIN m : m[k].name = name)

\* results.forEach(...): the settled closures of the batch, in batch order;
\* only a fulfilled closure's result is stored.
RECURSIVE StoreFrom(_, _, _, _)
StoreFrom(m, its, k, last) ==
    IF k > last THEN m
    ELSE StoreFrom(IF its[k].st = "resolved"
                   THEN MapSet(m, entries[k].name, its[k].summary)
                   ELSE m,
                   its, k + 1, last)

\* The batch's results stored only for the closures that did not fail.
StoreBatch_DropsFailures(m, its, from) ==
    StoreFrom(m, [k \in DOMAIN its |->
                    IF its[k].summary.kind = "YoyakuShippai"
                    THEN [its[k] EXCEPT !.st = "rejected"] ELSE its[k]],
              from + 1, Min(from + maxConcurrency, Len(entries)))

\* The batch's results stored from the last closure of the batch to the first.
RECURSIVE StoreDown(_, _, _, _)
StoreDown(m, its, first, k) ==
    IF k < first THEN m
    ELSE StoreDown(IF its[k].st = "resolved"
                   THEN MapSet(m, entries[k].name, its[k].summary)
                   ELSE m,
                   its, first, k - 1)

StoreBatch_LastFirst(m, its, from) ==
    StoreDown(m, its, from + 1, Min(from + maxConcurrency, Len(entries)))

StoreBatch(m, its, from) == StoreFrom(m, its, from + 1, Min(from + maxConcurrency, Len(entries)))

\* The loop test and the start of one batch: batch.map(...) runs every
\* closure of the batch up to its first await.
EnterLoop(from) ==
    IF from < Len(entries)
    THEN /\ pc' = "awaiting"
         /\ item' = [k \in DOMAIN entries |->
                        IF k \in BatchAt(from, Len(entries), maxConcurrency)
                        THEN Arrow(variant, Launch(variant, entries[k]))
                        ELSE PendingItem]
    ELSE /\ pc' = "returned"
         /\ item' = [k \in DOMAIN entries |-> PendingItem]

\* processSummaries is called: the key check of the deepseek build, then
\* the first batch.
Call ==
    /\ pc = "init"
    /\ IF variant = "deepseek" /\ apiKey = "invalid"
       THEN pc' = "thrown" /\ item' = item
       ELSE EnterLoop(0)
    /\ UNCHANGED <<variant, apiKey, entries, maxConcurrency, i, summaries, failed>>

\* The first request of entry k returns or fails.
FirstReturns ==
    \E k \in DOMAIN entries, r \in Responses :
        /\ pc = "awaiting"
        /\ item[k].st = "call1"
        /\ item' = [item EXCEPT ![k] = Arrow(variant, AfterFirst(variant, entries[k], item[k], r))]
        /\ failed' = IF r.ok THEN failed ELSE failed \cup {k}
        /\ UNCHANGED <<variant, apiKey, entries, maxConcurrency, pc, i, summaries>>

\* The corrective request of entry k returns or fails.
AdjustReturns ==
    \E k \in DOMAIN entries, r \in AdjustResponses :
        /\ pc = "awaiting"
        /\ item[k].st = "call2"
        /\ item' = [item EXCEPT ![k] = Arrow(variant, AfterAdjust(variant, entries[k], item[k], r))]
        /\ failed' = IF r.ok THEN failed ELSE failed \cup {k}
        /\ UNCHANGED <<variant, apiKey, entries, maxConcurrency, pc, i, summaries>>

\* An await on the closures of every entry, those of later batches too,
\* which have not been started.
BatchSettled_WaitsAll ==
    \A k \in DOMAIN entries : item[k].st \in {"resolved", "rejected"}

\* An await that resumes with the first closure to settle.
BatchSettled_First ==
    \E k \in Batch : item[k].st \in {"resolved", "rejected"}

\* await Promise.all / Promise.allSettled resumes.
BatchSettled ==
    \/ \A k \in Batch : item[k].st \in {"resolved", "rejected"}
    \/ variant = "summarizer" /\ \E k \in Batch : item[k].st = "rejected"

\* The batch's await resumes: the results are stored and the loop goes on
\* with the next batch, or processSummaries returns.
Settle ==
    /\ pc = "awaiting"
    /\ BatchSettled
    /\ IF variant = "summarizer" /\ \E k \in Batch : item[k].st = "rejected"
       THEN /\ pc' = "thrown"
            /\ UNCHANGED <<i, item, summaries>>
       ELSE /\ summaries' = StoreBatch(summaries, item, i)
            /\ i' = i + maxConcurrency
            /\ EnterLoop(i + maxConcurrency)
    /\ UNCHANGED <<variant, apiKey, entries, maxConcurrency, failed>>

SumInit ==
    /\ variant \in {"summarizer", "deepseek"}
    /\ apiKey \in {"valid", "invalid"}
    /\ \E n \in 0..MaxEntries : \E bad \in 0..n : entries = EntriesOf(n, bad)
    /\ maxConcurrency \in 1..MaxConc
    /\ pc = "init"
    /\ i = 0
    /\ item = [k \in DOMAIN entries |-> PendingItem]
    /\ summaries = << >>
    /\ failed = {}

-----------------------------------------------------------------------------
(* The privacy mask of summarizeOne *)

\* Strings are sequences of characters.  "Ta" and "Ie" stand for two
\* ordinary kanji, "Shi" for the honorific kanji shi, "Sama" for the
\* honorific kanji sama, "Sa" "N" for the two kana of the honorific san,
\* "Dot" for the character '.', and "Tai" "Sho" "Sha" for the three kanji of
\* the placeholder taishousha.
SeqsUpTo(S, n) == UNION {[1..k -> S] : k \in 0..n}

MaskChars == {"Ta", "Ie", "Shi", "Dot"}

\* The alternatives of /san|sama|shi/, in the order the pattern lists them.
Honorifics == << <<"Sa", "N">>, <<"Sama">>, <<"Shi">> >>

Placeholder == <<"Tai", "Sho", "Sha">>

\* s has the literal p at position at.
StartsWithAt(s, p, at) ==
    /\ at >= 1
    /\ at + Len(p) - 1 <= Len(s)
    /\ \A k \in 1..Len(p) : s[at + k - 1] = p[k]

Occurs(p, s) == \E at \in 1..(Len(s) + 1) : StartsWithAt(s, p, at)

HonorificAt(s, at) == {h \in DOMAIN Honorifics : StartsWithAt(s, Honorifics[h], at)}

\* The honorific removed from the end of the name only.
StripHonorific_Trailing(name) ==
    LET E == {h \in DOMAIN Honorifics :
                 StartsWithAt(name, Honorifics[h], Len(name) - Len(Honorifics[h]) + 1)}
    IN  IF E = {} THEN name
        ELSE LET h == CHOOSE x \in E : TRUE
             IN  SubSeq(name, 1, Len(name) - Len(Honorifics[h]))

\* name.replace(/san|sama|shi/, ''): the leftmost match is removed, wherever
\* in the name it is; the pattern has no g flag.
StripHonorific(name) ==
    LET P == {at \in 1..Len(name) : HonorificAt(name, at) # {}}
    IN  IF P = {} THEN name
        ELSE LET at == CHOOSE x \in P : \A y \in P : x <= y
                 h == CHOOSE x \in HonorificAt(name, at) : \A y \in HonorificAt(name, at) : x <= y
             IN  SubSeq(name, 1, at - 1) \o SubSeq(name, at + Len(Honorifics[h]), Len(name))

\* new RegExp(pat) matched at one position: the name is read as a pattern,
\* so its '.' matches any character.
RegexMatchAt(s, pat, at) ==
    /\ at + Len(pat) - 1 <= Len(s)
    /\ \A k \in 1..Len(pat) : pat[k] = "Dot" \/ pat[k] = s[at + k - 1]

\* content.replace(new RegExp(pat, 'g'), placeholder): the matches are taken
\* left to right without overlap; the empty pattern matches before every
\* character and at the end.
RECURSIVE ReplaceAllFrom(_, _, _)
ReplaceAllFrom(s, pat, at) ==
    IF Len(pat) = 0
    THEN IF at > Len(s) THEN Placeholder
         ELSE Placeholder \o <<s[at]>> \o ReplaceAllFrom(s, pat, at + 1)
    ELSE IF at > Len(s) THEN << >>
         ELSE IF RegexMatchAt(s, pat, at)
              THEN Placeholder \o ReplaceAllFrom(s, pat, at + Len(pat))
              ELSE <<s[at]>> \o ReplaceAllFrom(s, pat, at + 1)

MaskContent(name, content) == ReplaceAllFrom(content, StripHonorific(name), 1)

\* The user prompt: the name in the leading field, the masked content
\* between the --- delimiters.
UserPrompt(name, content) == [who |-> name, body |-> MaskContent(name, content)]

\* summarizeOne builds the prompt and sends the first request.
MaskAndSend ==
    /\ mPc = "init"
    /\ mRequest' = UserPrompt(mName, mContent)
    /\ mPc' = "sent"
    /\ UNCHANGED <<mName, mContent>>

MaskNames ==
    {Append(b, "Sama") : b \in SeqsUpTo(MaskChars, MaxBaseLen)}
        \cup {b \o <<"Sa", "N">> : b \in SeqsUpTo(MaskChars, MaxBaseLen)}
        \cup {Append(b, "Shi") : b \in SeqsUpTo(MaskChars, MaxBaseLen)}

MaskInit ==
    /\ mName \in MaskNames
    /\ mContent \in SeqsUpTo(MaskChars, MaxMaskContentLen)
    /\ mPc = "init"
    /\ mRequest = [who |-> << >>, body |-> << >>]

\* The components at rest, for the specifications that do not run them.
MaskIdle ==
    /\ mName = << >>
    /\ mContent = << >>
    /\ mPc = "idle"
    /\ mRequest = [who |-> << >>, body |-> << >>]

SumIdle ==
    /\ variant = "summarizer"
    /\ apiKey = "valid"
    /\ entries = << >>
    /\ maxConcurrency = 1
    /\ pc = "idle"
    /\ i = 0
    /\ item = << >>
    /\ summaries = << >>
    /\ failed = {}

-----------------------------------------------------------------------------
(* Record text, the length cap and the merge of a repeated name *)

\* The cap on one record's content.
MAX_CHARS_PER_SECTION == 10000

\* Length of the truncation marker "...[ika shouryaku]": three dots, two
\* brackets and four kanji.
MarkerLen == 9

\* A text is a sequence of tokens: [t |-> "txt"] is n characters of the
\* line (or record) id of the source, [t |-> "nl"] a run of n newlines,
\* [t |-> "mark"] n characters of the truncation marker.
Txt(id, n) == [t |-> "txt", id |-> id, n |-> n]

Nl(n) == [t |-> "nl", id |-> 0, n |-> n]

\* A horizontal-rule line of n characters, line id of the source.
Rule(id, n) == [t |-> "rule", id |-> id, n |-> n]

Marker == [t |-> "mark", id |-> 0, n |-> MarkerLen]

RECURSIVE TokLen(_)
TokLen(toks) == IF toks = << >> THEN 0 ELSE Head(toks).n + TokLen(Tail(toks))

\* a + b for two strings; adjacent runs of newlines become one run.
ConcatToks(a, b) ==
    IF a = << >> THEN b
    ELSE IF b = << >> THEN a
    ELSE IF a[Len(a)].t = "nl" /\ b[1].t = "nl"
         THEN SubSeq(a, 1, Len(a) - 1) \o <<Nl(a[Len(a)].n + b[1].n)>> \o Tail(b)
         ELSE a \o b

\* s.substring(0, k)
RECURSIVE Prefix(_, _)
Prefix(toks, k) ==
    IF toks = << >> \/ k <= 0 THEN << >>
    ELSE IF Head(toks).n <= k
         THEN <<Head(toks)>> \o Prefix(Tail(toks), k - Head(toks).n)
         ELSE <<[Head(toks) EXCEPT !.n = k]>>

\* s.substring(k)
RECURSIVE Drop(_, _)
Drop(toks, k) ==
    IF toks = << >> \/ k <= 0 THEN toks
    ELSE IF Head(toks).n <= k THEN Drop(Tail(toks), k - Head(toks).n)
         ELSE <<[Head(toks) EXCEPT !.n = @ - k]>> \o Tail(toks)

\* s.substring(a, b)
Substring(toks, a, b) == Prefix(Drop(toks, a), b - a)

\* s.trim(): lines carry no whitespace of their own, so only newline runs
\* at the two ends go.
TrimToks(toks) ==
    LET a == IF toks # << >> /\ toks[1].t = "nl" THEN Tail(toks) ELSE toks
    IN  IF a # << >> /\ a[Len(a)].t = "nl" THEN SubSeq(a, 1, Len(a) - 1) ELSE a

\* A content string with one history bit: cut is TRUE once characters of it
\* were dropped by the cap.
Content(toks) == [toks |-> toks, cut |-> FALSE]

ContentLen(c) == TokLen(c.toks)

\* A cap that also cuts a content of exactly MAX characters.
Truncate_AtLeast(c) ==
    IF ContentLen(c) >= MAX_CHARS_PER_SECTION
    THEN [toks |-> Append(Prefix(c.toks, MAX_CHARS_PER_SECTION), Marker), cut |-> TRUE]
    ELSE c

\* content.length > MAX ? content.substring(0, MAX) + marker : content
Truncate(c) ==
    IF ContentLen(c) > MAX_CHARS_PER_SECTION
    THEN [toks |-> Append(Prefix(c.toks, MAX_CHARS_PER_SECTION), Marker), cut |-> TRUE]
    ELSE c

\* existing + '\n\n' + content
JoinContent(existing, c) ==
    [toks |-> ConcatToks(ConcatToks(existing.toks, <<Nl(2)>>), c.toks),
     cut |-> existing.cut \/ c.cut]

\* The merge without the second application of the cap.
MergeContent_NoCap(existing, c) == JoinContent(existing, c)

\* A merge that keeps the new content only.
MergeContent_NewOnly(existing, c) == Truncate(c)

\* existing + '\n\n' + content, capped again.
MergeContent(existing, c) == Truncate(JoinContent(existing, c))

\* The SectionMap, a Map in insertion order.
SecHas(m, name) == \E k \in DOMAIN m : m[k].name = name

SecGet(m, name) == m[CHOOSE k \in DOMAIN m : m[k].name = name].content

SecSet(m, name, c) ==
    IF SecHas(m, name)
    THEN [k \in DOMAIN m |-> IF m[k].name = name THEN [name |-> name, content |-> c] ELSE m[k]]
    ELSE Append(m, [name |-> name, content |-> c])

\* sections.has(name) ? merge : set
SecAdd(m, name, c) ==
    IF SecHas(m, name) THEN SecSet(m, name, MergeContent(SecGet(m, name), c))
    ELSE SecSet(m, name, c)

\* Most pieces of a content the cap is applied to, and most applications.
MaxCapToks == 3

MaxApply == 3

\* The pieces such a content is made of: short and long text, a text of
\* exactly MAX characters, newlines and the marker itself.
CapPieces ==
    {Txt(1, 3), Txt(2, MAX_CHARS_PER_SECTION - 3), Txt(3, MAX_CHARS_PER_SECTION),
     Nl(2), Marker}

\* The truncation of one record: content = cap(content).
ApplyCap ==
    /\ tApplied >= 0
    /\ tApplied < MaxApply
    /\ tPrev' = tContent
    /\ tContent' = Truncate(tContent)
    /\ tApplied' = tApplied + 1

CapInit ==
    /\ tContent \in {Content(toks) : toks \in SeqsUpTo(CapPieces, MaxCapToks)}
    /\ tPrev = tContent
    /\ tApplied = 0

CapIdle ==
    /\ tContent = Content(<< >>)
    /\ tPrev = Content(<< >>)
    /\ tApplied = -1

-----------------------------------------------------------------------------
(* splitByPerson: header detection, the section loop and the fallbacks *)

\* Shortest content that makes a section.
MinContentChars == 10

\* A chunk of the fallback must be longer than this.
MinChunkChars == 50

\* A captured name is valid when its length is above 1 and below this.
MaxNameChars == 50

\* Most matches (and most chunks) that are used.
MaxSections == 100

\* Lines of a chunk searched for a name.
NameSearchLines == 5

\* A gap line of the model stands for this many empty lines.
GapLines == 3

\* Characters of a name with its honorific, "A-san".
NameChars == 3

\* A header line for person `who`: alone on its line ("plain"), as a
\* markdown header ("md"), after a label ("label"), between rules
\* ("decor"), in brackets ("bracket"), after a date ("dated"), or a line of
\* MaxNameChars characters that ends in an honorific ("long").
HeaderLine(kind, who) ==
    [kind |-> kind, who |-> who,
     n |-> CASE kind = "plain" -> NameChars
             [] kind = "md" -> NameChars + 3
             [] kind = "label" -> NameChars + 3
             [] kind = "decor" -> NameChars + 8
             [] kind = "bracket" -> NameChars + 2
             [] kind = "dated" -> NameChars + 5
             [] OTHER -> MaxNameChars]

\* n characters of record text without an honorific.
BodyLine(n) == [kind |-> "body", who |-> "", n |-> n]

\* n characters of record text that start with the name and its
\* honorific and go on after it ("A-san wa ..."): no header pattern
\* matches such a line.
MentionLine(who, n) == [kind |-> "mention", who |-> who, n |-> n]

\* A horizontal rule, "-----".
RuleLine == [kind |-> "rule", who |-> "", n |-> 5]

\* GapLines empty lines.
GapLine == [kind |-> "gap", who |-> "", n |-> GapLines - 1]

HeaderKinds == {"plain", "md", "label", "decor", "bracket", "dated", "long"}

\* The text of a header line and of the name in it.
NameText(p) == p.who \o "-san"

WholeText(p) ==
    CASE p.kind = "md" -> "## " \o NameText(p)
      [] p.kind = "label" -> "Shimei:" \o NameText(p)
      [] p.kind = "decor" -> "=== " \o NameText(p) \o " ==="
      [] p.kind = "bracket" -> "[" \o NameText(p) \o "]"
      [] p.kind = "dated" -> "3gatsu5nichi " \o NameText(p)
      [] p.kind = "long" -> "LongLine-" \o NameText(p)
      [] OTHER -> NameText(p)

NoMatch == [name |-> "", len |-> 0]

JustName(p) == [name |-> NameText(p), len |-> NameChars]

WholeLine(p) == [name |-> WholeText(p), len |-> p.n]

\* What the f-th of the six NAME_HEADER_PATTERNS captures as the name on
\* line p (its last capturing group).
CaptureCurrent(f, p) ==
    CASE f = 1 /\ p.kind \in {"plain", "label", "dated", "long"} -> WholeLine(p)
      [] f = 2 /\ p.kind = "md" -> JustName(p)
      [] f = 3 /\ p.kind = "label" -> JustName(p)
      [] f = 4 /\ p.kind = "decor" -> JustName(p)
      [] f = 5 /\ p.kind = "bracket" -> JustName(p)
      [] f = 6 /\ p.kind \in {"plain", "dated"} -> JustName(p)
      [] f = 6 /\ p.kind \in {"md", "label", "long"} -> WholeLine(p)
      [] OTHER -> NoMatch

\* The same for the four patterns of the legacy splitter (group 1).
CaptureLegacy(f, p) ==
    CASE f = 1 /\ p.kind = "md" -> JustName(p)
      [] f = 2 /\ p.kind \in {"plain", "label", "dated", "long"} -> WholeLine(p)
      [] f = 3 /\ p.kind = "label" -> JustName(p)
      [] f = 4 /\ p.kind = "decor" -> JustName(p)
      [] OTHER -> NoMatch

\* Array.from(text.matchAll(pattern)): per match its line, name and
\* the length of the name.
MatchesOf(v, f, text) ==
    SelectSeq([k \in 1..Len(text) |->
                  LET c == IF v = "current" THEN CaptureCurrent(f, text[k])
                           ELSE CaptureLegacy(f, text[k])
                  IN  [line |-> k, name |-> c.name, len |-> c.len]],
              LAMBDA m : m.name # "")

\* The filter of false positives.
ValidMatches(f, text) ==
    SelectSeq(MatchesOf("current", f, text), LAMBDA m : m.len > 1 /\ m.len < MaxNameChars)

\* The pattern with the most valid matches, the earliest one on a tie;
\* 0 when no pattern has a valid match.
BestPattern(text) ==
    IF \A f \in 1..6 : Len(ValidMatches(f, text)) = 0 THEN 0
    ELSE CHOOSE f \in 1..6 :
            \A g \in 1..6 :
               /\ Len(ValidMatches(g, text)) <= Len(ValidMatches(f, text))
               /\ g < f => Len(ValidMatches(g, text)) < Len(ValidMatches(f, text))

\* The first pattern of the legacy splitter that matches at all.
FirstPattern(text) ==
    IF \A f \in 1..4 : Len(MatchesOf("legacy", f, text)) = 0 THEN 0
    ELSE CHOOSE f \in 1..4 :
            /\ Len(MatchesOf("legacy", f, text)) > 0
            /\ \A g \in 1..(f - 1) : Len(MatchesOf("legacy", g, text)) = 0

\* The characters of one line.
LineToks(text, k) ==
    CASE text[k].kind = "gap" -> IF text[k].n > 0 THEN <<Nl(text[k].n)>> ELSE << >>
      [] text[k].kind = "rule" -> <<Rule(k, text[k].n)>>
      [] OTHER -> <<Txt(k, text[k].n)>>

\* The text as one string: its lines joined by newlines.
RECURSIVE TextToks(_, _)
TextToks(text, k) ==
    IF k > Len(text) THEN << >>
    ELSE IF k = Len(text) THEN LineToks(text, k)
    ELSE ConcatToks(ConcatToks(LineToks(text, k), <<Nl(1)>>), TextToks(text, k + 1))

\* match.index for a match on line k.
RECURSIVE LineStart(_, _)
LineStart(text, k) ==
    IF k <= 1 THEN 0 ELSE LineStart(text, k - 1) + text[k - 1].n + 1

\* The rule lines go, each with the newlines after it but the last.
RECURSIVE DropRules(_)
DropRules(toks) ==
    IF toks = << >> THEN << >>
    ELSE IF Head(toks).t = "rule"
         THEN IF Len(toks) >= 2 /\ toks[2].t = "nl"
              THEN IF Len(toks) = 2 THEN << >>
                   ELSE ConcatToks(<<Nl(1)>>, DropRules(Tail(Tail(toks))))
              ELSE DropRules(Tail(toks))
         ELSE ConcatToks(<<Head(toks)>>, DropRules(Tail(toks)))

\* .replace(/\n{3,}/g, '\n\n')
CollapseNewlines(toks) ==
    [k \in DOMAIN toks |-> IF toks[k].t = "nl" /\ toks[k].n >= 3 THEN Nl(2) ELSE toks[k]]

cleanContent(toks) == TrimToks(CollapseNewlines(DropRules(toks)))

\* The clean-up of the legacy splitter: no collapse of newlines.
LegacyClean(toks) == TrimToks(DropRules(toks))

\* text.substring(startIdx, endIdx).trim() for the k-th match.
SectionText(text, matches, k) ==
    LET startIdx == LineStart(text, matches[k].line) + text[matches[k].line].n
        endIdx == IF k + 1 <= Len(matches) THEN LineStart(text, matches[k + 1].line)
                  ELSE TokLen(TextToks(text, 1))
    IN  TrimToks(Substring(TextToks(text, 1), startIdx, endIdx))

\* text.split(/\n{4,}/): the chunks between runs of four or more newlines.
RECURSIVE SplitChunks(_, _)
SplitChunks(toks, cur) ==
    IF toks = << >> THEN <<cur>>
    ELSE IF Head(toks).t = "nl" /\ Head(toks).n >= 4
         THEN <<cur>> \o SplitChunks(Tail(toks), << >>)
         ELSE SplitChunks(Tail(toks), Append(cur, Head(toks)))

\* line.match(/(.+?(?:san|sama|shi))/) on a header line: the line up to
\* and with its honorific.
UpToHonorific(p) ==
    CASE p.kind = "decor" -> "=== " \o NameText(p)
      [] p.kind = "bracket" -> "[" \o NameText(p)
      [] OTHER -> WholeText(p)

\* The name found in the first `left` lines of a chunk, "" if none.
RECURSIVE ChunkName(_, _, _)
ChunkName(text, toks, left) ==
    IF toks = << >> \/ left <= 0 THEN ""
    ELSE IF Head(toks).t = "nl" THEN ChunkName(text, Tail(toks), left - Head(toks).n)
    ELSE IF Head(toks).t = "txt" /\ text[Head(toks).id].kind \in HeaderKinds \cup {"mention"}
         THEN UpToHonorific(text[Head(toks).id])
         ELSE ChunkName(text, Tail(toks), left)

\* The forEach over the chunks, from chunk k on.
RECURSIVE AddChunks(_, _, _, _)
AddChunks(m, text, chunks, k) ==
    IF k > Len(chunks) THEN m
    ELSE LET trimmed == TrimToks(chunks[k])
             found == ChunkName(text, trimmed, NameSearchLines)
             name == IF found = "" THEN "Mibunrui" \o ToString(k) \o "-san" ELSE found
         IN  AddChunks(IF TokLen(trimmed) > MinChunkChars
                       THEN SecSet(m, name, Truncate(Content(trimmed)))
                       ELSE m,
                       text, chunks, k + 1)

\* The sections the chunks give.
ChunkSections(text) ==
    LET chunks == SplitChunks(TextToks(text, 1), << >>)
    IN  IF Len(chunks) > 1 /\ Len(chunks) <= MaxSections
        THEN AddChunks(<< >>, text, chunks, 1)
        ELSE << >>

\* fallbackSplit without its last resort.
fallbackSplit_NoSingle(text) == ChunkSections(text)

fallbackSplit(text) ==
    IF Len(ChunkSections(text)) = 0
    THEN <<[name |-> "Mibunrui-san", content |-> Truncate(Content(TextToks(text, 1)))]>>
    ELSE ChunkSections(text)

\* The whole text as one section of the legacy splitter.
LegacyFallback(text) ==
    <<[name |-> "Mibunrui-san", content |-> Content(TrimToks(TextToks(text, 1)))]>>

\* The search for the header pattern; the legacy splitter returns the whole
\* text at once when no pattern matches.
DetectPattern ==
    /\ sPc = "detect"
    /\ sI' = 1
    /\ IF sVariant = "current"
       THEN /\ sFamily' = BestPattern(sText)
            /\ sMatches' = IF sFamily' = 0 THEN << >> ELSE ValidMatches(sFamily', sText)
            /\ sPc' = "sections"
            /\ UNCHANGED <<sSections, sPath>>
       ELSE /\ sFamily' = FirstPattern(sText)
            /\ sMatches' = IF sFamily' = 0 THEN << >> ELSE MatchesOf("legacy", sFamily', sText)
            /\ sPc' = IF sFamily' = 0 THEN "returned" ELSE "sections"
            /\ sSections' = IF sFamily' = 0 THEN LegacyFallback(sText) ELSE sSections
            /\ sPath' = IF sFamily' = 0 THEN "single" ELSE sPath
    /\ UNCHANGED <<sVariant, sText>>

\* Whether the loop over the matches runs at all.
UsesMatches ==
    \/ sVariant = "legacy"
    \/ Len(sMatches) >= 2 /\ Len(sMatches) <= MaxSections

\* One turn of the loop over the matches.
SectionStep ==
    /\ sPc = "sections"
    /\ UsesMatches
    /\ sI <= Len(sMatches)
    /\ sI' = sI + 1
    /\ LET name == sMatches[sI].name
           raw == SectionText(sText, sMatches, sI)
       IN  IF sVariant = "current"
           THEN LET content == Content(cleanContent(raw))
                IN  sSections' =
                       IF sMatches[sI].len < 2 \/ ContentLen(content) < MinContentChars
                       THEN sSections
                       ELSE SecAdd(sSections, name, Truncate(content))
           ELSE LET content == Content(LegacyClean(raw))
                IN  sSections' =
                       IF SecHas(sSections, name)
                       THEN SecSet(sSections, name, JoinContent(SecGet(sSections, name), content))
                       ELSE SecSet(sSections, name, content)
    /\ UNCHANGED <<sVariant, sText, sPc, sFamily, sMatches, sPath>>

\* After the loop: the sections, or the fallback when there are none. The
\* legacy splitter first deletes the sections shorter than MinContentChars.
SplitReturn ==
    /\ sPc = "sections"
    /\ ~(UsesMatches /\ sI <= Len(sMatches))
    /\ sPc' = "returned"
    /\ LET kept == IF sVariant = "current" THEN sSections
                   ELSE SelectSeq(sSections,
                                  LAMBDA e : ContentLen(e.content) >= MinContentChars)
       IN  IF Len(kept) > 0
           THEN sSections' = kept /\ sPath' = "pattern"
           ELSE IF sVariant = "current"
                THEN /\ sSections' = fallbackSplit(sText)
                     /\ sPath' = IF Len(ChunkSections(sText)) = 0 THEN "single" ELSE "chunks"
                ELSE /\ sSections' = LegacyFallback(sText)
                     /\ sPath' = "single"
    /\ UNCHANGED <<sVariant, sText, sFamily, sMatches, sI>>

\* The lines the texts are made of.
LineOptions ==
    {HeaderLine("plain", "A"), HeaderLine("plain", "B"), HeaderLine("md", "A"),
     BodyLine(3), BodyLine(60), BodyLine(MAX_CHARS_PER_SECTION - 5),
     BodyLine(MAX_CHARS_PER_SECTION + 1), RuleLine, GapLine}

SplitInit ==
    /\ sVariant \in {"current", "legacy"}
    /\ sText \in SeqsUpTo(LineOptions, MaxLines)
    /\ sPc = "detect"
    /\ sFamily = 0
    /\ sMatches = << >>
    /\ sI = 1
    /\ sSections = << >>
    /\ sPath = "none"

\* The lines of the texts without headers: record text with and without a
\* name in it, empty lines, and one header.
ChunkLineOptions ==
    {MentionLine("A", 60), MentionLine("B", 60), BodyLine(60), BodyLine(3), GapLine,
     HeaderLine("plain", "A")}

ChunkInit ==
    /\ sVariant = "current"
    /\ sText \in SeqsUpTo(ChunkLineOptions, MaxLines)
    /\ sPc = "detect"
    /\ sFamily = 0
    /\ sMatches = << >>
    /\ sI = 1
    /\ sSections = << >>
    /\ sPath = "none"

SplitIdle ==
    /\ sVariant = "idle"
    /\ sText = << >>
    /\ sPc = "idle"
    /\ sFamily = 0
    /\ sMatches = << >>
    /\ sI = 1
    /\ sSections = << >>
    /\ sPath = "none"

-----------------------------------------------------------------------------
(* extractFromExcel: the records of every worksheet, capped and merged *)

\* One record of a worksheet: `len` characters of content under `name`
\* ("" for a record without a name, len 0 for one without content).
RecordLens == {0, 3, MAX_CHARS_PER_SECTION - 5, MAX_CHARS_PER_SECTION + 1}

RecordOptions ==
    [name : {"A", "B"}, len : RecordLens] \cup {[name |-> "", len |-> 3]}

\* The records of one worksheet, from record number `from` on, added to m.
RECURSIVE AddRecords(_, _, _)
AddRecords(m, recs, from) ==
    IF recs = << >> THEN m
    ELSE LET r == Head(recs) IN
         AddRecords(IF r.name # "" /\ r.len > 0
                    THEN SecAdd(m, r.name, Truncate(Content(<<Txt(from, r.len)>>)))
                    ELSE m,
                    Tail(recs), from + 1)

RECURSIVE CountRecords(_)
CountRecords(recs) ==
    IF recs = << >> THEN 0
    ELSE (IF Head(recs).name # "" /\ Head(recs).len > 0 THEN 1 ELSE 0) + CountRecords(Tail(recs))

RECURSIVE RecordsBefore(_, _)
RecordsBefore(sheets, k) ==
    IF k <= 1 THEN 0 ELSE Len(sheets[k - 1]) + RecordsBefore(sheets, k - 1)

\* One turn of the loop over the worksheets.
ExcelSheet ==
    /\ xPc = "sheets"
    /\ xNext <= Len(xSheets)
    /\ xSections' = AddRecords(xSections, xSheets[xNext], RecordsBefore(xSheets, xNext) + 1)
    /\ xFound' = xFound + CountRecords(xSheets[xNext])
    /\ xNext' = xNext + 1
    /\ UNCHANGED <<xSheets, xPc>>

\* An end of extractFromExcel that returns the map whatever its size.
ExcelFinish_AlwaysReturns ==
    /\ xPc = "sheets"
    /\ xNext > Len(xSheets)
    /\ xPc' = "returned"
    /\ UNCHANGED <<xSheets, xNext, xSections, xFound>>

\* After the last worksheet: the no-records error, or the map is returned.
ExcelFinish ==
    /\ xPc = "sheets"
    /\ xNext > Len(xSheets)
    /\ xPc' = IF Len(xSections) = 0 THEN "thrown" ELSE "returned"
    /\ UNCHANGED <<xSheets, xNext, xSections, xFound>>

\* A sequence of records cut into worksheets: a worksheet ends after every
\* record whose number is in `ends`, and after the last.
RECURSIVE SheetsOf(_, _, _)
SheetsOf(recs, ends, k) ==
    IF k > Len(recs) THEN << >>
    ELSE LET e == CHOOSE x \in (ends \cup {Len(recs)}) :
                     x >= k /\ \A y \in (ends \cup {Len(recs)}) : y >= k => x <= y
         IN  <<SubSeq(recs, k, e)>> \o SheetsOf(recs, ends, e + 1)

ExcelInit ==
    /\ \E recs \in SeqsUpTo(RecordOptions, MaxRecords) :
          \E ends \in SUBSET (1..(Len(recs) - 1)) : xSheets = SheetsOf(recs, ends, 1)
    /\ xPc = "sheets"
    /\ xNext = 1
    /\ xSections = << >>
    /\ xFound = 0

ExcelIdle ==
    /\ xSheets = << >>
    /\ xPc = "idle"
    /\ xNext = 1
    /\ xSections = << >>
    /\ xFound = 0

-----------------------------------------------------------------------------
(* The multi-file modes: summarizeAndMergeExcelFiles and mergeExcelFiles *)

\* Length of the rule between two records of the combined content.
SummarizeRuleChars == 30

MergeRuleChars == 50

\* File names: "b_2024-1-2.xlsx", "bz.xlsx", "c_2024-1-15.xlsx" and
\* "d_2024-1-15.xlsx". `date` holds the digits of year, month and day
\* as they stand in the name, << >> when the name has no date.
FileNames ==
    {[stem |-> "b", date |-> << <<2, 0, 2, 4>>, <<1>>, <<2>> >>],
     [stem |-> "bz", date |-> << >>],
     [stem |-> "c", date |-> << <<2, 0, 2, 4>>, <<1>>, <<1, 5>> >>],
     [stem |-> "d", date |-> << <<2, 0, 2, 4>>, <<1>>, <<1, 5>> >>]}

\* The characters nen, gatsu and nichi, which sort after the digits.
DateMarks == <<10, 11, 12>>

\* extractDateFromFileName: the first pattern's year, month and day put as
\* "<y>nen<m>gatsu<d>nichi"; << >> (undefined) for a name without date.
extractDateFromFileName(fileName) ==
    IF fileName.date = << >> THEN << >>
    ELSE fileName.date[1] \o <<DateMarks[1]>> \o fileName.date[2] \o <<DateMarks[2]>>
         \o fileName.date[3] \o <<DateMarks[3]>>

\* a.localeCompare(b) for two date strings: -1, 0 or 1, character by character.
RECURSIVE DateCompare(_, _)
DateCompare(a, b) ==
    IF a = << >> /\ b = << >> THEN 0
    ELSE IF a = << >> THEN -1
    ELSE IF b = << >> THEN 1
    ELSE IF Head(a) < Head(b) THEN -1
    ELSE IF Head(a) > Head(b) THEN 1
    ELSE DateCompare(Tail(a), Tail(b))

\* The file names in the order of localeCompare.
FileNameOrder == <<"b", "bz", "c", "d">>

FileNameRank(fileName) == CHOOSE k \in DOMAIN FileNameOrder : FileNameOrder[k] = fileName.stem

\* The comparator of groupByPerson.
CompareItems(a, b) ==
    IF a.date # << >> /\ b.date # << >> THEN DateCompare(a.date, b.date)
    ELSE IF FileNameRank(a.sourceFile) < FileNameRank(b.sourceFile) THEN -1
    ELSE IF FileNameRank(a.sourceFile) > FileNameRank(b.sourceFile) THEN 1
    ELSE 0

\* The orderings of a sequence.
Orderings(seq) ==
    {[k \in DOMAIN seq |-> seq[q[k]]] : q \in Permutations(DOMAIN seq)}

\* items.sort(compare): the stable sort when the comparator orders the items
\* consistently; any ordering when it does not.
SortOutcomes(items) ==
    LET n == Len(items)
        Stable(q) ==
            \A k, l \in 1..n :
               k < l =>
                  \/ CompareItems(items[q[k]], items[q[l]]) < 0
                  \/ CompareItems(items[q[k]], items[q[l]]) = 0 /\ q[k] < q[l]
        good == {q \in Permutations(1..n) : Stable(q)}
        used == IF good = {} THEN Permutations(1..n) ELSE good
    IN  {[k \in 1..n |-> items[q[k]]] : q \in used}

\* The content a file holds for a person.
ContentOf(fileName, who) == [file |-> fileName.stem, who |-> who]

\* A file: its name, whether extractFromExcel returns for it, and the
\* names of the persons its workbook holds.
FileOptions ==
    [fileName : FileNames, ok : {TRUE}, persons : {<<"A">>, <<"A", "B">>}]
        \cup [fileName : FileNames, ok : {FALSE}, persons : {<<"A">>}]

\* The loop over the sections of one file in summarizeAndMergeExcelFiles.
RECURSIVE TrackSections(_, _, _)
TrackSections(all, file, k) ==
    IF k > Len(file.persons) THEN all
    ELSE LET name == file.persons[k]
             at == IF \E j \in DOMAIN all : all[j].name = name THEN all
                   ELSE Append(all, [name |-> name, contents |-> << >>, sources |-> << >>])
         IN  TrackSections(
                [j \in DOMAIN at |->
                    IF at[j].name = name
                    THEN [at[j] EXCEPT !.contents = Append(@, ContentOf(file.fileName, name)),
                                       !.sources = Append(@, file.fileName)]
                    ELSE at[j]],
                file, k + 1)

\* The loop over the sections of one file in mergeExcelFiles.
RECURSIVE PushPersonData(_, _, _)
PushPersonData(all, file, k) ==
    IF k > Len(file.persons) THEN all
    ELSE PushPersonData(
            Append(all, [name |-> file.persons[k],
                         content |-> ContentOf(file.fileName, file.persons[k]),
                         sourceFile |-> file.fileName,
                         date |-> extractDateFromFileName(file.fileName)]),
            file, k + 1)

\* A failed extraction ends the request.
FileOutcome_Aborts(v, all, file) ==
    IF file.ok
    THEN [pc |-> "extract",
          all |-> IF v = "summarize" THEN TrackSections(all, file, 1)
                  ELSE PushPersonData(all, file, 1)]
    ELSE [pc |-> "thrown", all |-> all]

\* The try block for one file: its sections are added; when
\* extractFromExcel throws, the catch logs and the loop goes on.
FileOutcome(v, all, file) ==
    IF file.ok
    THEN [pc |-> "extract",
          all |-> IF v = "summarize" THEN TrackSections(all, file, 1)
                  ELSE PushPersonData(all, file, 1)]
    ELSE [pc |-> "extract", all |-> all]

\* The combined content: per record a header line and the content, the
\* records joined by a rule.
RECURSIVE JoinRecords(_, _, _)
JoinRecords(parts, ruleChars, k) ==
    IF k > Len(parts) THEN << >>
    ELSE <<[t |-> "header", date |-> parts[k].header.date, file |-> parts[k].header.file,
            who |-> ""],
           [t |-> "content", date |-> << >>, file |-> parts[k].content.file,
            who |-> parts[k].content.who]>>
         \o (IF k < Len(parts)
             THEN <<[t |-> "rule", date |-> << >>, file |-> ToString(ruleChars), who |-> ""]>>
             ELSE << >>)
         \o JoinRecords(parts, ruleChars, k + 1)

\* Step 2 of summarizeAndMergeExcelFiles for one name: the header is the
\* date of the source file when its name has one, else the file name.
SummarizeCombined(entry) ==
    LET parts == [k \in DOMAIN entry.contents |->
                    [header |-> IF extractDateFromFileName(entry.sources[k]) # << >>
                                THEN [date |-> extractDateFromFileName(entry.sources[k]),
                                      file |-> ""]
                                ELSE [date |-> << >>, file |-> entry.sources[k].stem],
                     content |-> entry.contents[k],
                     source |-> entry.sources[k]]]
    IN  [name |-> entry.name, parts |-> parts,
         combined |-> JoinRecords(parts, SummarizeRuleChars, 1)]

\* setupPersonSheet of the merger for one name: the combined view exists
\* when the name has more than one record; the header is the file name.
MergeCombined(name, items) ==
    LET parts == [k \in DOMAIN items |->
                    [header |-> [date |-> << >>, file |-> items[k].sourceFile.stem],
                     content |-> items[k].content,
                     source |-> items[k].sourceFile]]
    IN  [name |-> name, parts |-> parts,
         combined |-> IF Len(items) > 1 THEN JoinRecords(parts, MergeRuleChars, 1) ELSE << >>]

\* The names of allPersonData in the order of their first record.
RECURSIVE GroupNames(_, _)
GroupNames(data, seen) ==
    IF data = << >> THEN seen
    ELSE GroupNames(Tail(data),
                    IF \E k \in DOMAIN seen : seen[k] = Head(data).name THEN seen
                    ELSE Append(seen, Head(data).name))

ItemsOf(data, name) == SelectSeq(data, LAMBDA d : d.name = name)

\* groupByPerson and the combined view, from the k-th name on: every
\* result the sort allows.
RECURSIVE MergeResultsFrom(_, _, _)
MergeResultsFrom(data, names, k) ==
    IF k > Len(names) THEN {<< >>}
    ELSE {<<MergeCombined(names[k], o)>> \o rest :
             o \in SortOutcomes(ItemsOf(data, names[k])),
             rest \in MergeResultsFrom(data, names, k + 1)}

MergeResults(data) == MergeResultsFrom(data, GroupNames(data, << >>), 1)

\* The results of the combine step for what the extraction loop collected.
CombineResults(v, all) ==
    IF v = "summarize" THEN {[k \in DOMAIN all |-> SummarizeCombined(all[k])]}
    ELSE MergeResults(all)

\* The extraction loop over a whole file list.
RECURSIVE ExtractAll(_, _, _)
ExtractAll(v, files, all) ==
    IF files = << >> THEN all
    ELSE ExtractAll(v, Tail(files), FileOutcome(v, all, Head(files)).all)

\* One turn of the loop over the files.
AggFile ==
    /\ aPc = "extract"
    /\ aNext <= Len(aFiles)
    /\ LET out == FileOutcome(aVariant, aAll, aFiles[aNext])
       IN  aPc' = out.pc /\ aAll' = out.all
    /\ aNext' = aNext + 1
    /\ UNCHANGED <<aVariant, aFiles, aResult>>

\* After the last file: the records of each name are put together.
AggCombine ==
    /\ aPc = "extract"
    /\ aNext > Len(aFiles)
    /\ aResult' \in CombineResults(aVariant, aAll)
    /\ aPc' = "returned"
    /\ UNCHANGED <<aVariant, aFiles, aNext, aAll>>

AggInit ==
    /\ aVariant \in {"summarize", "merge"}
    /\ aFiles \in SeqsUpTo(FileOptions, MaxFiles)
    /\ aPc = "extract"
    /\ aNext = 1
    /\ aAll = << >>
    /\ aResult = << >>

AggIdle ==
    /\ aVariant = "idle"
    /\ aFiles = << >>
    /\ aPc = "idle"
    /\ aNext = 1
    /\ aAll = << >>
    /\ aResult = << >>

-----------------------------------------------------------------------------
(* The single-file summarize request: the route handlers *)

\* Fewest characters of text a PDF must give.
MinTextChars == 100

\* A text: its length, how many of its characters are the replacement
\* character U+FFFD, and how many whitespace characters it ends with.
TextOf(len, bad, ws) == [len |-> len, bad |-> bad, ws |-> ws]

NoTextYet == TextOf(0, 0, 0)

\* A PDF file: `primary` is what the text objects and streams give after
\* the clean-up (trimmed), `japanese` the runs of Japanese text longer than
\* ten characters joined by newlines, found in the raw bytes.
PdfFiles ==
    [kind : {"pdf"}, excel : {""}, found : {0},
     primary : {TextOf(0, 0, 0), TextOf(MinTextChars - 1, 0, 0), TextOf(MinTextChars, 10, 0),
                TextOf(MinTextChars, 11, 0), TextOf(MinTextChars + 50, 0, 0)},
     japanese : {TextOf(0, 0, 0), TextOf(MinTextChars - 1, 0, 0), TextOf(MinTextChars + 20, 0, 0),
                 TextOf(MinTextChars + 20, 0, 25)}]

\* A workbook: one that does not load ("corrupt"), one that holds no
\* record ("norecords"), or one with `found` persons.
ExcelFiles ==
    [kind : {"excel"}, excel : {"corrupt", "norecords"}, found : {0},
     primary : {NoTextYet}, japanese : {NoTextYet}]
       \cup [kind : {"excel"}, excel : {"ok"}, found : {1, 2},
             primary : {NoTextYet}, japanese : {NoTextYet}]

\* The text extractTextFromPDF settles on: the Japanese runs stand in when
\* the text objects gave fewer than MinTextChars characters.
PdfText(file) ==
    IF file.primary.len < MinTextChars /\ file.japanese.len > 0
    THEN file.japanese ELSE file.primary

\* extractTextFromPDF throws when that text is shorter than MinTextChars.
PdfThrows(file) == PdfText(file).len < MinTextChars

\* An extractFromExcel that returns an empty map when it finds no record.
ExcelThrows_OnlyOnLoad(file) == file.excel = "corrupt"

\* extractFromExcel throws when the workbook does not load or holds no record.
ExcelThrows(file) == file.excel # "ok"

\* A response: its status, what it carries ("text", "json" or "workbook")
\* and the message of an error response.
ResponseOf(status, kind, message) == [status |-> status, kind |-> kind, message |-> message]

NoResponse == ResponseOf(0, "", "")

\* The catch of the handler for a thrown error with message `msg`.
CaughtResponse(h, msg) ==
    IF h = "process000" THEN ResponseOf(500, "text", msg)
    ELSE ResponseOf(500, "text", "ShoriChuuNiError: " \o msg)

\* The check that the API key is configured.
RouteKeyCheck ==
    /\ rPc = "start"
    /\ IF rKeySet
       THEN rPc' = "extract" /\ rResponse' = rResponse
       ELSE /\ rPc' = "done"
            /\ rResponse' = IF rHandler = "process000"
                             THEN ResponseOf(500, "json", "ApiKeyNotSet")
                             ELSE ResponseOf(500, "text", "ApiKeyNotSet")
    /\ UNCHANGED <<rHandler, rKeySet, rFile, rText, rSplitInput, rSections, rCalls, rWorkbook>>

\* The extraction: extractFromExcel for a workbook, extractTextFromPDF for
\* a PDF; a thrown error ends the request in the handler's catch (the
\* upload handler has a catch of its own around extractFromExcel).
RouteExtract ==
    /\ rPc = "extract"
    /\ IF rFile.kind = "excel"
       THEN IF ExcelThrows(rFile)
            THEN /\ rPc' = "done"
                 /\ rResponse' = IF rHandler = "upload001"
                                  THEN ResponseOf(400, "text", "ExcelYomitoriShippai")
                                  ELSE CaughtResponse(rHandler, "ExcelKirokuNashi")
                 /\ UNCHANGED <<rText, rSections>>
            ELSE /\ rPc' = "summarize"
                 /\ rSections' = rFile.found
                 /\ UNCHANGED <<rText, rResponse>>
       ELSE IF PdfThrows(rFile)
            THEN /\ rPc' = "done"
                 /\ rResponse' = CaughtResponse(rHandler, "PdfYomitoriShippai")
                 /\ UNCHANGED <<rText, rSections>>
            ELSE /\ rPc' = "check"
                 /\ rText' = PdfText(rFile)
                 /\ UNCHANGED <<rSections, rResponse>>
    /\ UNCHANGED <<rHandler, rKeySet, rFile, rSplitInput, rCalls, rWorkbook>>

\* The handler's own tests of the text: the trimmed length and the share
\* of replacement characters; "" when the text passes. The process handler
\* of part_000 has no such test.
TextRejected(h, text) ==
    IF h = "process000" THEN ""
    ELSE IF text.len = 0 \/ text.len - text.ws < MinTextChars THEN "PdfTextNashi"
    ELSE IF text.bad * 10 > text.len THEN "PdfMojibake"
    ELSE ""

\* The tests of the text and, when it passes, splitByPerson.
RouteSplit ==
    /\ rPc = "check"
    /\ IF TextRejected(rHandler, rText) # ""
       THEN /\ rPc' = "done"
            /\ rResponse' = ResponseOf(400, "text", TextRejected(rHandler, rText))
            /\ UNCHANGED <<rSplitInput, rSections>>
       ELSE /\ rPc' = "summarize"
            /\ rSplitInput' = rText
            /\ rSections' \in {1, 2}
            /\ UNCHANGED rResponse
    /\ UNCHANGED <<rHandler, rKeySet, rFile, rText, rCalls, rWorkbook>>

\* processSummaries (one remote call or two for each section), buildExcel
\* and the response with the workbook; the upload handler and the process
\* handler of part_003 first refuse an empty SectionMap.
RouteSummarize ==
    /\ rPc = "summarize"
    /\ rPc' = "done"
    /\ IF rSections = 0 /\ rHandler # "process000"
       THEN /\ rResponse' = ResponseOf(400, "text", "SectionNashi")
            /\ UNCHANGED <<rCalls, rWorkbook>>
       ELSE /\ rCalls' \in rSections..(2 * rSections)
            /\ rWorkbook' = TRUE
            /\ rResponse' = ResponseOf(200, "workbook", "")
    /\ UNCHANGED <<rHandler, rKeySet, rFile, rText, rSplitInput, rSections>>

RouteInit ==
    /\ rHandler \in {"process000", "upload001", "process003"}
    /\ rKeySet \in BOOLEAN
    /\ rFile \in PdfFiles \cup ExcelFiles
    /\ rPc = "start"
    /\ rText = NoTextYet
    /\ rSplitInput = NoTextYet
    /\ rSections = 0
    /\ rCalls = 0
    /\ rWorkbook = FALSE
    /\ rResponse = NoResponse

RouteIdle ==
    /\ rHandler = "idle"
    /\ rKeySet = FALSE
    /\ rFile = [kind |-> "", excel |-> "", found |-> 0, primary |-> NoTextYet,
                japanese |-> NoTextYet]
    /\ rPc = "idle"
    /\ rText = NoTextYet
    /\ rSplitInput = NoTextYet
    /\ rSections = 0
    /\ rCalls = 0
    /\ rWorkbook = FALSE
    /\ rResponse = NoResponse

-----------------------------------------------------------------------------
(* extractRecordsFromSheet: the three strategies on one worksheet *)

\* Most rows of a worksheet.
MaxRows == 3

\* Rows searched for a header or for a name.
HeaderSearchRows == 5

\* Columns searched for a name by extractSheetAsPerson.
NameSearchColumns == 3

\* A record is kept when its content is longer than this.
MinRecordChars == 10

\* A cell value after sanitizeCellValue (or a worksheet name): its kind,
\* its text and the length of the text.
Blank == [k |-> "blank", who |-> "", n |-> 0]

\* "Shimei", a header of the name column.
NameHdr == [k |-> "nameHdr", who |-> "Shimei", n |-> 2]

\* "Kiroku-naiyou", a header of a content column.
ContentHdr == [k |-> "contentHdr", who |-> "KirokuNaiyou", n |-> 4]

\* A name without honorific, one capital letter.
Bare(who) == [k |-> "bare", who |-> who, n |-> 1]

\* A name with the honorific sama.
Titled(who) == [k |-> "titled", who |-> who \o "-sama", n |-> 2]

\* A cell that holds the number 12.
Digits == [k |-> "digits", who |-> "12", n |-> 2]

\* Running text of n characters (with punctuation, no keyword of a header).
Note(n) == [k |-> "note", who |-> "memo", n |-> n]

\* Worksheet names: a person ("A"), the default name and a month.
SheetNames ==
    {Bare("A"), [k |-> "default", who |-> "Sheet1", n |-> 6],
     [k |-> "month", who |-> "2024-04", n |-> 7]}

\* The rows a worksheet is made of.
RowOptions ==
    {<<NameHdr, ContentHdr, ContentHdr>>,
     <<NameHdr, ContentHdr, Blank>>,
     <<NameHdr, Blank, Blank>>,
     <<Bare("A"), Note(12), Blank>>,
     <<Bare("A"), Note(12), Note(4)>>,
     <<Bare("A"), Note(4), Blank>>,
     <<Bare("A"), Blank, Blank>>,
     <<Titled("A"), Note(12), Blank>>,
     <<Bare("B"), Note(12), Blank>>,
     <<Bare("B"), Note(4), Note(4)>>,
     <<Digits, Note(12), Blank>>,
     <<Blank, Note(12), Blank>>}

\* One space.
Sp == [t |-> "sp", id |-> 0, n |-> 1]

\* The text of the cell in row r, column c.
CellToks(cell, r, c) == <<Txt(r * 10 + c, cell.n)>>

\* parts.join(sep)
RECURSIVE JoinToks(_, _)
JoinToks(parts, sep) ==
    IF parts = << >> THEN << >>
    ELSE IF Len(parts) = 1 THEN parts[1]
    ELSE parts[1] \o sep \o JoinToks(Tail(parts), sep)

\* The texts of the cells of row r in the columns cols (in that order)
\* that are not empty and whose text is none of `skipped`.
RECURSIVE RowParts(_, _, _, _)
RowParts(row, r, cols, skipped) ==
    IF cols = << >> THEN << >>
    ELSE LET c == Head(cols)
             rest == RowParts(row, r, Tail(cols), skipped)
         IN  IF c \in DOMAIN row /\ row[c].k # "blank" /\ row[c].who \notin skipped
             THEN <<CellToks(row[c], r, c)>> \o rest
             ELSE rest

\* The columns 1 .. n in order.
ColumnsTo(n) == [c \in 1..n |-> c]

\* The columns a .. b in order.
ColumnsFromTo(a, b) == [c \in 1..(IF b >= a THEN b - a + 1 ELSE 0) |-> a + c - 1]

\* isLikelyPersonName: a name with an honorific, a word of up to ten kana
\* or kanji (the headers are such words), or one capital letter.
isLikelyPersonName(v) == v.k \in {"bare", "titled", "nameHdr", "contentHdr"}

\* ensureHonorific: "" for an empty name, a number or a name that starts
\* with Sheet; a name that ends with an honorific as it is; sama is added
\* to any other.
ensureHonorific(v) ==
    IF v.k \in {"blank", "digits", "default"} THEN ""
    ELSE IF v.k = "titled" THEN v.who
    ELSE v.who \o "-sama"

\* The lines of strategy 1: for every row the cells that are not the name,
\* joined by spaces; rows that give nothing are left out.
RECURSIVE SheetLines(_, _, _)
SheetLines(rows, r, skipped) ==
    IF r > Len(rows) THEN << >>
    ELSE LET parts == RowParts(rows[r], r, ColumnsTo(Len(rows[r])), skipped)
         IN  (IF parts = << >> THEN << >> ELSE <<JoinToks(parts, <<Sp>>)>>)
                \o SheetLines(rows, r + 1, skipped)

\* Strategy 1: the whole worksheet is the record of one person, named by
\* the worksheet; no record (null) is << >>.
extractSheetAsPerson(ws) ==
    LET last == IF Len(ws.rows) < HeaderSearchRows THEN Len(ws.rows) ELSE HeaderSearchRows
        named == \/ isLikelyPersonName(ws.name)
                 \/ \E r \in 1..last : \E c \in DOMAIN ws.rows[r] :
                        c <= NameSearchColumns /\ isLikelyPersonName(ws.rows[r][c])
        nameWithHonorific == ensureHonorific(ws.name)
        content == JoinToks(SheetLines(ws.rows, 1, {nameWithHonorific, ws.name.who}),
                            <<Nl(1)>>)
    IN  IF named /\ nameWithHonorific # "" /\ TokLen(content) > MinRecordChars
        THEN <<[name |-> nameWithHonorific, content |-> content]>>
        ELSE << >>

\* The columns of row that hold cells of kind k, in order.
ColumnsOfKind(row, k) == SelectSeq(ColumnsTo(Len(row)), LAMBDA c : row[c].k = k)

\* A sequence with the elements of `more` it does not hold yet appended.
RECURSIVE AppendNew(_, _)
AppendNew(seq, more) ==
    IF more = << >> THEN seq
    ELSE AppendNew(IF \E k \in DOMAIN seq : seq[k] = Head(more) THEN seq
                   ELSE Append(seq, Head(more)),
                   Tail(more))

\* The search for the header in the first rows: the name column is the
\* last header of a name seen, the content columns every header of a
\* content seen; the search ends after the row where it has both.
RECURSIVE HeaderScan(_, _, _, _)
HeaderScan(rows, r, nameColumnIndex, contentColumnIndices) ==
    IF r > Len(rows) \/ r > HeaderSearchRows
    THEN [name |-> nameColumnIndex, content |-> contentColumnIndices]
    ELSE LET nameCols == ColumnsOfKind(rows[r], "nameHdr")
             newName == IF nameCols = << >> THEN nameColumnIndex
                        ELSE nameCols[Len(nameCols)]
             newContent == AppendNew(contentColumnIndices, ColumnsOfKind(rows[r], "contentHdr"))
         IN  IF newName > 0 /\ newContent # << >>
             THEN [name |-> newName, content |-> newContent]
             ELSE HeaderScan(rows, r + 1, newName, newContent)

\* row.cellCount: the column of the last cell of the row.
cellCount(row) ==
    IF \A c \in DOMAIN row : row[c].k = "blank" THEN 0
    ELSE CHOOSE c \in DOMAIN row :
            row[c].k # "blank" /\ \A d \in DOMAIN row : d > c => row[d].k = "blank"

\* The columns strategy 2 reads: with a name column and no content header,
\* every column after the name column of the first row.
StructuredColumns(rows) ==
    LET found == HeaderScan(rows, 1, 0, << >>)
    IN  IF found.name > 0 /\ found.content = << >> /\ rows # << >>
        THEN [name |-> found.name,
              content |-> ColumnsFromTo(found.name + 1, cellCount(rows[1]))]
        ELSE found

\* A record is kept when name and content are there and the content is
\* longer than MinRecordChars.
KeepRecord(name, content) == name # "" /\ TokLen(content) > MinRecordChars

\* The data rows of strategy 2 from row r on: a row with a name and a
\* content starts the record of that name or is appended to it.
RECURSIVE StructuredRows(_, _, _, _)
StructuredRows(rows, r, cols, records) ==
    IF r > Len(rows) THEN records
    ELSE LET row == rows[r]
             content == JoinToks(RowParts(row, r, cols.content, {}), <<Sp>>)
             nameWithHonorific == ensureHonorific(row[cols.name])
             next ==
                IF row[cols.name].k = "blank" \/ ~KeepRecord(nameWithHonorific, content)
                THEN records
                ELSE IF \E k \in DOMAIN records : records[k].name = nameWithHonorific
                THEN [k \in DOMAIN records |->
                        IF records[k].name = nameWithHonorific
                        THEN [name |-> nameWithHonorific,
                              content |-> records[k].content \o <<Nl(1)>> \o content]
                        ELSE records[k]]
                ELSE Append(records, [name |-> nameWithHonorific, content |-> content])
         IN  StructuredRows(rows, r + 1, cols, next)

\* Strategy 2: a name column and content columns; the data starts at the
\* second row.
extractStructuredRecords(ws) ==
    LET cols == StructuredColumns(ws.rows)
    IN  IF cols.name > 0 /\ cols.content # << >>
        THEN StructuredRows(ws.rows, 2, cols, << >>)
        ELSE << >>

\* The record of the current person of strategy 3, if it is long enough.
FlushPerson(records, person, lines) ==
    LET content == JoinToks(lines, <<Nl(1)>>)
    IN  IF person # "" /\ lines # << >> /\ TokLen(content) > MinRecordChars
        THEN Append(records, [name |-> person, content |-> content])
        ELSE records

\* Strategy 3 from row r on: a row that starts with a name with honorific
\* followed by a space starts a person, any other row is a line of the
\* current person.
RECURSIVE NamePatternRows(_, _, _, _, _)
NamePatternRows(rows, r, person, lines, records) ==
    IF r > Len(rows) THEN FlushPerson(records, person, lines)
    ELSE LET row == rows[r]
             cols == SelectSeq(ColumnsTo(Len(row)), LAMBDA c : row[c].k # "blank")
             parts == RowParts(row, r, cols, {})
         IN  IF parts = << >> THEN NamePatternRows(rows, r + 1, person, lines, records)
             ELSE IF row[cols[1]].k = "titled" /\ Len(parts) > 1
             THEN NamePatternRows(rows, r + 1, row[cols[1]].who,
                                  <<JoinToks(Tail(parts), <<Sp>>)>>,
                                  FlushPerson(records, person, lines))
             ELSE IF person # ""
             THEN NamePatternRows(rows, r + 1, person,
                                  Append(lines, JoinToks(parts, <<Sp>>)), records)
             ELSE NamePatternRows(rows, r + 1, person, lines, records)

extractByNamePatterns(ws) == NamePatternRows(ws.rows, 1, "", << >>, << >>)

\* A strategy that is never accepted.
Yields_Never(records) == FALSE

\* if (records.length > 0)
Yields(records) == Len(records) > 0

\* Strategy 1 and its return.
SheetAsPerson ==
    /\ wPc = "strategy1"
    /\ wRan' = Append(wRan, "sheetAsPerson")
    /\ IF Yields(extractSheetAsPerson(wSheet))
       THEN wRecords' = extractSheetAsPerson(wSheet) /\ wPc' = "returned"
       ELSE wRecords' = wRecords /\ wPc' = "strategy2"
    /\ UNCHANGED wSheet

\* Strategy 2 and its return.
Structured ==
    /\ wPc = "strategy2"
    /\ wRan' = Append(wRan, "structured")
    /\ IF Yields(extractStructuredRecords(wSheet))
       THEN wRecords' = extractStructuredRecords(wSheet) /\ wPc' = "returned"
       ELSE wRecords' = wRecords /\ wPc' = "strategy3"
    /\ UNCHANGED wSheet

\* Strategy 3 and the last return (its records or the empty list).
ByNamePatterns ==
    /\ wPc = "strategy3"
    /\ wRan' = Append(wRan, "namePatterns")
    /\ wRecords' = IF Yields(extractByNamePatterns(wSheet))
                   THEN extractByNamePatterns(wSheet) ELSE wRecords
    /\ wPc' = "returned"
    /\ UNCHANGED wSheet

RECURSIVE RowsUpTo(_)
RowsUpTo(n) ==
    IF n = 0 THEN {<< >>}
    ELSE RowsUpTo(n - 1) \cup {Append(rs, row) : rs \in RowsUpTo(n - 1), row \in RowOptions}

SheetInit ==
    /\ wSheet \in [name : SheetNames, rows : RowsUpTo(MaxRows)]
    /\ wPc = "strategy1"
    /\ wRan = << >>
    /\ wRecords = << >>

SheetIdle ==
    /\ wSheet = [name |-> Blank, rows |-> << >>]
    /\ wPc = "idle"
    /\ wRan = << >>
    /\ wRecords = << >>

-----------------------------------------------------------------------------
(* assignUniqueSheetName: the worksheet names of one workbook *)

\* Most calls with the base name that is repeated, and with any other.
MaxRepeat == 22

MaxOther == 2

\* Longest worksheet name.
SheetNameChars == 31

\* Longest cleaned base name of the merge modes.
CleanNameChars == 25

\* Largest number with a circled digit.
LastCircled == 20

\* A string is a sequence of runs: n times the character c, no two
\* neighbouring runs of the same character.
Run(c, n) == [c |-> c, n |-> n]

RECURSIVE Norm(_)
Norm(str) ==
    IF str = << >> THEN << >>
    ELSE IF Head(str).n = 0 THEN Norm(Tail(str))
    ELSE LET rest == Norm(Tail(str))
         IN  IF rest # << >> /\ rest[1].c = Head(str).c
             THEN <<Run(Head(str).c, Head(str).n + rest[1].n)>> \o Tail(rest)
             ELSE <<Head(str)>> \o rest

\* a + b
Cat(a, b) == Norm(a \o b)

RECURSIVE StrLen(_)
StrLen(str) == IF str = << >> THEN 0 ELSE Head(str).n + StrLen(Tail(str))

\* str.substring(0, k)
RECURSIVE Sub(_, _)
Sub(str, k) ==
    IF str = << >> \/ k <= 0 THEN << >>
    ELSE IF Head(str).n >= k THEN <<Run(Head(str).c, k)>>
    ELSE <<Head(str)>> \o Sub(Tail(str), k - Head(str).n)

\* The characters of EXCEL_FORBIDDEN: [ ] * : / \ ?
Forbidden == {"[", "]", "*", ":", "/", "bslash", "?"}

\* str.replace(EXCEL_FORBIDDEN, '')
StripForbidden(str) == Norm(SelectSeq(str, LAMBDA r : r.c \notin Forbidden))

\* sanitizeSheetName
sanitizeSheetName(name) == Sub(StripForbidden(name), SheetNameChars)

\* The decimal digits of k.
RECURSIVE DecimalStr(_)
DecimalStr(k) ==
    IF k < 10 THEN <<Run(ToString(k), 1)>>
    ELSE Cat(DecimalStr(k \div 10), <<Run(ToString(k % 10), 1)>>)

\* CIRCLED_NUMBERS[k] || `(${k})`
CircledOrParen(k) ==
    IF k >= 1 /\ k <= LastCircled THEN <<Run("circled" \o ToString(k), 1)>>
    ELSE Cat(Cat(<<Run("(", 1)>>, DecimalStr(k)), <<Run(")", 1)>>)

\* A suffix that numbers the call and not the repetition.
Suffix_OfCall(count) == CircledOrParen(count)

\* The suffix of the call that makes the count `count`.
Suffix(count) == CircledOrParen(count - 1)

\* base + suffix, the base shortened so that both fit a worksheet name.
Candidate(base, circled) ==
    IF StrLen(Cat(base, circled)) > SheetNameChars
    THEN Cat(Sub(base, SheetNameChars - StrLen(circled)), circled)
    ELSE Cat(base, circled)

\* The key under which a base name is counted: the base itself in
\* excel-generator.ts, the cleaned name in the merge modes.
KeyOf(v, base) ==
    IF v = "generator" THEN base ELSE Sub(StripForbidden(base), CleanNameChars)

\* What assignUniqueSheetName returns for `base` when the count of its
\* key becomes `count`.
NameFor(v, base, count) ==
    IF v = "generator"
    THEN IF count = 1 THEN sanitizeSheetName(base)
         ELSE sanitizeSheetName(Candidate(base, Suffix(count)))
    ELSE IF count = 1 THEN KeyOf(v, base)
         ELSE Candidate(KeyOf(v, base), Suffix(count))

\* The base names passed: a short name, the same with a forbidden
\* character, two long names that agree in their first 31 characters, and
\* the short name followed by the first circled digit.
ShortName == <<Run("a", 1)>>

BaseNames ==
    {ShortName,
     <<Run("a", 1), Run("/", 1)>>,
     <<Run("b", SheetNameChars)>>,
     <<Run("b", SheetNameChars), Run("c", 1)>>,
     <<Run("a", 1), Run("circled1", 1)>>}

CallLimit(base) == IF base = ShortName THEN MaxRepeat ELSE MaxOther

\* One call of assignUniqueSheetName(base, seen).
AssignName(base) ==
    /\ nCalls[base] < CallLimit(base)
    /\ LET key == KeyOf(nVariant, base)
           count == nSeen[key] + 1
           name == NameFor(nVariant, base, count)
       IN  /\ nSeen' = [nSeen EXCEPT ![key] = count]
           /\ nNames' = nNames \cup {name}
           /\ nClash' = (nClash \/ name \in nNames)
           /\ nLast' = [base |-> base, k |-> nCalls[base] + 1, name |-> name]
    /\ nCalls' = [nCalls EXCEPT ![base] = @ + 1]
    /\ UNCHANGED nVariant

NameInit ==
    /\ nVariant \in {"generator", "merge"}
    /\ nSeen = [key \in BaseNames \cup {KeyOf("merge", b) : b \in BaseNames} |-> 0]
    /\ nCalls = [b \in BaseNames |-> 0]
    /\ nNames = {}
    /\ nClash = FALSE
    /\ nLast = [base |-> << >>, k |-> 0, name |-> << >>]

NameIdle ==
    /\ nVariant = "idle"
    /\ nSeen = << >>
    /\ nCalls = << >>
    /\ nNames = {}
    /\ nClash = FALSE
    /\ nLast = [base |-> << >>, k |-> 0, name |-> << >>]

-----------------------------------------------------------------------------
(* summarizeOne of pdf-extractor.ts: the size-limiting step *)

\* Most runs of an input content.
MaxRuns == 3

MAX_INPUT_TOKENS == 120000

\* Math.floor(MAX_INPUT_TOKENS * CHARS_PER_TOKEN_ESTIMATE), with 0.4
\* characters per token.
MAX_INPUT_CHARS == (MAX_INPUT_TOKENS * 4) \div 10

\* The absolute limit of characters and the length a content over it is
\* cut to.
AbsoluteMaxChars == 50000

AbsoluteCutChars == 45000

\* How far before maxChars the cut may be at most.
CutWindow == 100

\* The classes of characters: "jp" (kana and kanji), "ascii" (letters and
\* digits), "period" (the full stop), "newline" and "other".
QuarterTokens(c) == IF c = "jp" THEN 10 ELSE IF c = "ascii" THEN 1 ELSE 6

RECURSIVE QuarterSum(_)
QuarterSum(text) ==
    IF text = << >> THEN 0
    ELSE QuarterTokens(Head(text).c) * Head(text).n + QuarterSum(Tail(text))

\* estimateTokens: 2.5 per Japanese character, 0.25 per ASCII letter or
\* digit, 1.5 per other character, rounded up.
estimateTokens(text) == (QuarterSum(text) + 3) \div 4

\* text.lastIndexOf of a character of class c, -1 if there is none.
RECURSIVE LastIndexFrom(_, _, _)
LastIndexFrom(text, c, at) ==
    IF text = << >> THEN -1
    ELSE LET later == LastIndexFrom(Tail(text), c, at + Head(text).n)
         IN  IF later >= 0 THEN later
             ELSE IF Head(text).c = c THEN at + Head(text).n - 1
             ELSE -1

lastIndexOf(text, c) == LastIndexFrom(text, c, 0)

Max3(a, b, c) ==
    IF a >= b /\ a >= c THEN a ELSE IF b >= c THEN b ELSE c

\* The notice of truncateToTokenLimit: two newlines, then 33 characters
\* in brackets, 26 of them Japanese.
TokenNotice ==
    <<Run("newline", 2), Run("other", 1), Run("jp", 2), Run("other", 2), Run("jp", 9),
      Run("other", 1), Run("jp", 15), Run("other", 1)>>

\* The notice of the absolute limit: two newlines and [ika shouryaku].
AbsoluteNotice == <<Run("newline", 2), Run("other", 1), Run("jp", 4), Run("other", 1)>>

\* truncateToTokenLimit(text, MAX_INPUT_CHARS)
truncateToTokenLimit(text) ==
    IF StrLen(text) <= MAX_INPUT_CHARS THEN text
    ELSE LET truncated == Sub(text, MAX_INPUT_CHARS)
             cutPoint == Max3(lastIndexOf(truncated, "period"),
                              lastIndexOf(truncated, "newline"),
                              MAX_INPUT_CHARS - CutWindow)
         IN  Cat(Sub(text, cutPoint), TokenNotice)

\* if (estimatedTokens > MAX_INPUT_TOKENS) content = truncateToTokenLimit(content)
LimitByTokens ==
    /\ lPc = "tokens"
    /\ lContent' = IF estimateTokens(lContent) > MAX_INPUT_TOKENS
                   THEN truncateToTokenLimit(lContent) ELSE lContent
    /\ lPc' = "chars"
    /\ UNCHANGED lInput

\* if (content.length > 50000) content = content.substring(0, 45000) + notice
LimitByChars ==
    /\ lPc = "chars"
    /\ lContent' = IF StrLen(lContent) > AbsoluteMaxChars
                   THEN Cat(Sub(lContent, AbsoluteCutChars), AbsoluteNotice) ELSE lContent
    /\ lPc' = "limited"
    /\ UNCHANGED lInput

\* The runs the input contents are made of.
RunOptions ==
    {Run("jp", 30), Run("jp", MAX_INPUT_CHARS - CutWindow), Run("jp", MAX_INPUT_CHARS - 1),
     Run("jp", AbsoluteMaxChars), Run("ascii", AbsoluteMaxChars + 1), Run("other", CutWindow),
     Run("period", 1), Run("newline", 1)}

LimitInit ==
    /\ lContent \in {Norm(text) : text \in SeqsUpTo(RunOptions, MaxRuns)}
    /\ lInput = lContent
    /\ lPc = "tokens"

LimitIdle ==
    /\ lContent = << >>
    /\ lInput = << >>
    /\ lPc = "idle"

-----------------------------------------------------------------------------
(* processSummaries followed by buildExcel, with the order of completion *)

\* The closures that are settled after a step and were not before it, by
\* their index.
RECURSIVE SettledNow(_, _, _)
SettledNow(before, after, k) ==
    IF k > Len(before) THEN << >>
    ELSE (IF before[k].st \notin {"resolved", "rejected"}
             /\ after[k].st \in {"resolved", "rejected"}
          THEN <<k>> ELSE << >>) \o SettledNow(before, after, k + 1)

OrderCall ==
    /\ Call
    /\ oDone' = oDone \o SettledNow(item, item', 1)
    /\ UNCHANGED <<oBuilt, oSheets>>

OrderFirstReturns ==
    /\ FirstReturns
    /\ oDone' = oDone \o SettledNow(item, item', 1)
    /\ UNCHANGED <<oBuilt, oSheets>>

OrderAdjustReturns ==
    /\ AdjustReturns
    /\ oDone' = oDone \o SettledNow(item, item', 1)
    /\ UNCHANGED <<oBuilt, oSheets>>

OrderSettle ==
    /\ Settle
    /\ oDone' = oDone \o SettledNow(item, item', 1)
    /\ UNCHANGED <<oBuilt, oSheets>>

\* buildExcel: one worksheet per entry of the map, in the map's order.
\* The names are distinct valid worksheet names here, so that the
\* worksheet of a name is known by that name.
BuildExcel ==
    /\ pc = "returned"
    /\ ~oBuilt
    /\ oBuilt' = TRUE
    /\ oSheets' = [k \in DOMAIN summaries |-> summaries[k].name]
    /\ UNCHANGED oDone
    /\ UNCHANGED sumVars

\* Most entries in the runs whose order of completion is recorded.
OrderMaxEntries == 3

\* The runs with a usable key in which no mask fails to build.
OrderInit ==
    /\ SumInit
    /\ apiKey = "valid"
    /\ Len(entries) <= OrderMaxEntries
    /\ maxConcurrency <= LiveMaxConc
    /\ \A k \in DOMAIN entries : entries[k].regexOk
    /\ oDone = << >>
    /\ oBuilt = FALSE
    /\ oSheets = << >>

OrderIdle ==
    /\ oDone = << >>
    /\ oBuilt = FALSE
    /\ oSheets = << >>

-----------------------------------------------------------------------------
(* The batch loop of processSummaries on the numbers a handler can pass *)

\* Most characters of the setting, most entries, and most turns of the
\* loop that are followed.
MaxSettingLen == 2

MaxConcEntries == 3

MaxTurns == 5

\* A number of the program: an integer or NaN.
Num(v) == [nan |-> FALSE, v |-> v]

NaN == [nan |-> TRUE, v |-> 0]

\* a + b, a < b and the conversion of an index argument, on numbers.
Plus(a, b) == IF a.nan \/ b.nan THEN NaN ELSE Num(a.v + b.v)

LessThan(a, b) == ~a.nan /\ ~b.nan /\ a.v < b.v

ToIntegerOrZero(a) == IF a.nan THEN 0 ELSE a.v

\* The characters of a setting: a sign, digits and a letter.
SettingChars == {"-", "0", "1", "2", "x"}

DigitChars == {"0", "1", "2"}

DigitValue(c) == CASE c = "0" -> 0 [] c = "1" -> 1 [] OTHER -> 2

\* The value of the digits at the front of s, after the digits read so far.
RECURSIVE LeadingDigits(_, _)
LeadingDigits(str, acc) ==
    IF str = << >> \/ Head(str) \notin DigitChars THEN acc
    ELSE LeadingDigits(Tail(str), acc * 10 + DigitValue(Head(str)))

\* parseInt(str): an optional sign, then the digits up to the first
\* character that is none; NaN when there is no digit there.
parseInt(str) ==
    LET neg == str # << >> /\ Head(str) = "-"
        body == IF neg THEN Tail(str) ELSE str
    IN  IF body = << >> \/ Head(body) \notin DigitChars THEN NaN
        ELSE Num((IF neg THEN -1 ELSE 1) * LeadingDigits(body, 0))

\* An index argument of slice on an array of len elements: counted from
\* the end when negative, and kept within 0..len.
SliceIndex(rel, len) == IF rel < 0 THEN Max(len + rel, 0) ELSE Min(rel, len)

\* entries.slice(from, to), as the 1-based indices of its elements in order.
Slice(len, from, to) ==
    LET a == SliceIndex(ToIntegerOrZero(from), len)
        b == SliceIndex(ToIntegerOrZero(to), len)
    IN  [k \in 1..Max(b - a, 0) |-> a + k]

\* summaries.set for every entry of the batch, in the batch's order.
RECURSIVE StoreAll(_, _)
StoreAll(out, batch) ==
    IF batch = << >> THEN out
    ELSE StoreAll(IF Head(batch) \in Range(out) THEN out ELSE Append(out, Head(batch)),
                  Tail(batch))

\* The handler reads the setting and calls processSummaries.
ConcCall ==
    /\ cPc = "init"
    /\ cConc' = parseInt(cSetting)
    /\ cI' = Num(0)
    /\ cPc' = "loop"
    /\ UNCHANGED <<cSetting, cN, cOut, cTurns>>

\* One turn of for (let i = 0; i < entries.length; i += maxConcurrency):
\* the batch is cut, every closure of it settles, the results are stored.
ConcTurn ==
    /\ cPc = "loop"
    /\ LessThan(cI, Num(cN))
    /\ cTurns < MaxTurns
    /\ cOut' = StoreAll(cOut, Slice(cN, cI, Plus(cI, cConc)))
    /\ cI' = Plus(cI, cConc)
    /\ cTurns' = cTurns + 1
    /\ UNCHANGED <<cSetting, cConc, cN, cPc>>

\* The loop test fails: return summaries.
ConcReturn ==
    /\ cPc = "loop"
    /\ ~LessThan(cI, Num(cN))
    /\ cPc' = "returned"
    /\ UNCHANGED <<cSetting, cConc, cN, cI, cOut, cTurns>>

ConcInit ==
    /\ cSetting \in SeqsUpTo(SettingChars, MaxSettingLen)
    /\ cN \in 0..MaxConcEntries
    /\ cConc = Num(0)
    /\ cI = Num(0)
    /\ cPc = "init"
    /\ cOut = << >>
    /\ cTurns = 0

ConcIdle ==
    /\ cSetting = << >>
    /\ cN = 0
    /\ cConc = Num(0)
    /\ cI = Num(0)
    /\ cPc = "idle"
    /\ cOut = << >>
    /\ cTurns = 0

-----------------------------------------------------------------------------
(* /api/process in the multi-file modes *)

\* The handler up to the switch on the mode: no file gives status 400, the
\* summarizing mode without a key status 500.
ReqStart ==
    /\ qPc = "start"
    /\ IF Len(aFiles) = 0
       THEN qResponse' = "status400" /\ qPc' = "done"
       ELSE IF aVariant = "summarize" /\ ~qKeySet
            THEN qResponse' = "status500" /\ qPc' = "done"
            ELSE qResponse' = qResponse /\ qPc' = "files"
    /\ UNCHANGED <<qKeySet, qCalls, qSheets>>
    /\ UNCHANGED aggVars

\* One file of the extraction loop; an error that leaves the loop is
\* caught by the handler and answered with status 500.
ReqFile ==
    /\ qPc = "files"
    /\ AggFile
    /\ IF aPc' = "thrown"
       THEN qResponse' = "status500" /\ qPc' = "done"
       ELSE qResponse' = qResponse /\ qPc' = qPc
    /\ UNCHANGED <<qKeySet, qCalls, qSheets>>

\* The records of each name are put together.
ReqCombine ==
    /\ qPc = "files"
    /\ AggCombine
    /\ qPc' = IF aVariant = "summarize" THEN "summaries" ELSE "workbook"
    /\ UNCHANGED <<qKeySet, qCalls, qSheets, qResponse>>

\* processSummaries on the combined sections: summarizeOne, and with it a
\* remote call, for every name.
ReqSummaries ==
    /\ qPc = "summaries"
    /\ qCalls' = [k \in DOMAIN aResult |-> aResult[k].name]
    /\ qPc' = "workbook"
    /\ UNCHANGED <<qKeySet, qSheets, qResponse>>
    /\ UNCHANGED aggVars

\* createSummarizedExcel / createMergedExcel: the overview sheet, then one
\* worksheet per name; the handler answers with the file.
ReqWorkbook ==
    /\ qPc = "workbook"
    /\ qSheets' = <<"overview">> \o [k \in DOMAIN aResult |-> aResult[k].name]
    /\ qResponse' = "file"
    /\ qPc' = "done"
    /\ UNCHANGED <<qKeySet, qCalls>>
    /\ UNCHANGED aggVars

ReqInit ==
    /\ AggInit
    /\ qKeySet \in BOOLEAN
    /\ qPc = "start"
    /\ qCalls = << >>
    /\ qSheets = << >>
    /\ qResponse = "none"

ReqIdle ==
    /\ qKeySet = FALSE
    /\ qPc = "idle"
    /\ qCalls = << >>
    /\ qSheets = << >>
    /\ qResponse = "none"

-----------------------------------------------------------------------------
(* Specifications *)

SumNext ==
    \/ Call /\ UNCHANGED <<maskVars, excelVars, splitVars, aggVars, routeVars, sheetVars, nameVars, capVars, limitVars, orderVars, concVars, reqVars>>
    \/ FirstReturns /\ UNCHANGED <<maskVars, excelVars, splitVars, aggVars, routeVars, sheetVars, nameVars, capVars, limitVars, orderVars, concVars, reqVars>>
    \/ AdjustReturns /\ UNCHANGED <<maskVars, excelVars, splitVars, aggVars, routeVars, sheetVars, nameVars, capVars, limitVars, orderVars, concVars, reqVars>>
    \/ Settle /\ UNCHANGED <<maskVars, excelVars, splitVars, aggVars, routeVars, sheetVars, nameVars, capVars, limitVars, orderVars, concVars, reqVars>>

\* processSummaries is called; the other parts of the service are idle.
Init == SumInit /\ MaskIdle /\ ExcelIdle /\ SplitIdle /\ AggIdle /\ RouteIdle /\ SheetIdle /\ NameIdle
       /\ CapIdle
       /\ LimitIdle
       /\ OrderIdle
       /\ ConcIdle
       /\ ReqIdle

\* One run of processSummaries.
Spec == Init /\ [][SumNext]_vars

MaskNext == MaskAndSend /\ UNCHANGED <<sumVars, excelVars, splitVars, aggVars, routeVars, sheetVars, nameVars, capVars, limitVars, orderVars, concVars, reqVars>>

\* Every remote call in flight is answered in the end, and a promise that
\* can resume does: each step of the orchestrator that stays possible is
\* taken.
SumFairness ==
    /\ WF_vars(Call /\ UNCHANGED <<maskVars, excelVars, splitVars, aggVars, routeVars, sheetVars, nameVars, capVars, limitVars, orderVars, concVars, reqVars>>)
    /\ WF_vars(FirstReturns /\ UNCHANGED <<maskVars, excelVars, splitVars, aggVars, routeVars, sheetVars, nameVars, capVars, limitVars, orderVars, concVars, reqVars>>)
    /\ WF_vars(AdjustReturns /\ UNCHANGED <<maskVars, excelVars, splitVars, aggVars, routeVars, sheetVars, nameVars, capVars, limitVars, orderVars, concVars, reqVars>>)
    /\ WF_vars(Settle /\ UNCHANGED <<maskVars, excelVars, splitVars, aggVars, routeVars, sheetVars, nameVars, capVars, limitVars, orderVars, concVars, reqVars>>)

InitLive == Init /\ Len(entries) <= LiveMaxEntries /\ maxConcurrency <= LiveMaxConc

\* One run of processSummaries in which every remote call returns or fails.
SpecLive == InitLive /\ [][SumNext]_vars /\ SumFairness

InitMask == MaskInit /\ SumIdle /\ ExcelIdle /\ SplitIdle /\ AggIdle /\ RouteIdle /\ SheetIdle /\ NameIdle
       /\ CapIdle
       /\ LimitIdle
       /\ OrderIdle
       /\ ConcIdle
       /\ ReqIdle

\* One run of summarizeOne up to its first request.
SpecMask == InitMask /\ [][MaskNext]_vars

ExtractInit ==
    /\ \/ SplitInit /\ ExcelIdle
       \/ ExcelInit /\ SplitIdle
    /\ SumIdle /\ MaskIdle /\ AggIdle /\ RouteIdle /\ SheetIdle /\ NameIdle
       /\ CapIdle
       /\ LimitIdle
       /\ OrderIdle
       /\ ConcIdle
       /\ ReqIdle

ExtractNext ==
    \/ DetectPattern /\ UNCHANGED <<sumVars, maskVars, excelVars, aggVars, routeVars, sheetVars, nameVars, capVars, limitVars, orderVars, concVars, reqVars>>
    \/ SectionStep /\ UNCHANGED <<sumVars, maskVars, excelVars, aggVars, routeVars, sheetVars, nameVars, capVars, limitVars, orderVars, concVars, reqVars>>
    \/ SplitReturn /\ UNCHANGED <<sumVars, maskVars, excelVars, aggVars, routeVars, sheetVars, nameVars, capVars, limitVars, orderVars, concVars, reqVars>>
    \/ ExcelSheet /\ UNCHANGED <<sumVars, maskVars, splitVars, aggVars, routeVars, sheetVars, nameVars, capVars, limitVars, orderVars, concVars, reqVars>>
    \/ ExcelFinish /\ UNCHANGED <<sumVars, maskVars, splitVars, aggVars, routeVars, sheetVars, nameVars, capVars, limitVars, orderVars, concVars, reqVars>>

\* One extraction: splitByPerson on a text, or extractFromExcel on a workbook.
SpecExtract == ExtractInit /\ [][ExtractNext]_vars

AggNext ==
    \/ AggFile /\ UNCHANGED <<sumVars, maskVars, excelVars, splitVars, routeVars, sheetVars, nameVars, capVars, limitVars, orderVars, concVars, reqVars>>
    \/ AggCombine /\ UNCHANGED <<sumVars, maskVars, excelVars, splitVars, routeVars, sheetVars, nameVars, capVars, limitVars, orderVars, concVars, reqVars>>

RouteNext ==
    \/ RouteKeyCheck /\ UNCHANGED <<sumVars, maskVars, excelVars, splitVars, aggVars, sheetVars, nameVars, capVars, limitVars, orderVars, concVars, reqVars>>
    \/ RouteExtract /\ UNCHANGED <<sumVars, maskVars, excelVars, splitVars, aggVars, sheetVars, nameVars, capVars, limitVars, orderVars, concVars, reqVars>>
    \/ RouteSplit /\ UNCHANGED <<sumVars, maskVars, excelVars, splitVars, aggVars, sheetVars, nameVars, capVars, limitVars, orderVars, concVars, reqVars>>
    \/ RouteSummarize /\ UNCHANGED <<sumVars, maskVars, excelVars, splitVars, aggVars, sheetVars, nameVars, capVars, limitVars, orderVars, concVars, reqVars>>

InitRoute == RouteInit /\ SumIdle /\ MaskIdle /\ ExcelIdle /\ SplitIdle /\ AggIdle /\ SheetIdle /\ NameIdle
       /\ CapIdle
       /\ LimitIdle
       /\ OrderIdle
       /\ ConcIdle
       /\ ReqIdle

SheetNext ==
    \/ SheetAsPerson /\ UNCHANGED <<sumVars, maskVars, excelVars, splitVars, aggVars, routeVars, nameVars, capVars, limitVars, orderVars, concVars, reqVars>>
    \/ Structured /\ UNCHANGED <<sumVars, maskVars, excelVars, splitVars, aggVars, routeVars, nameVars, capVars, limitVars, orderVars, concVars, reqVars>>
    \/ ByNamePatterns /\ UNCHANGED <<sumVars, maskVars, excelVars, splitVars, aggVars, routeVars, nameVars, capVars, limitVars, orderVars, concVars, reqVars>>

InitSheet ==
    SheetInit /\ SumIdle /\ MaskIdle /\ ExcelIdle /\ SplitIdle /\ AggIdle /\ RouteIdle /\ NameIdle
       /\ CapIdle
       /\ LimitIdle
       /\ OrderIdle
       /\ ConcIdle
       /\ ReqIdle

NameNext ==
    \E b \in BaseNames :
       AssignName(b) /\ UNCHANGED <<sumVars, maskVars, excelVars, splitVars, aggVars,
                                    routeVars, sheetVars, capVars, limitVars, orderVars, concVars, reqVars>>

InitName ==
    NameInit /\ SumIdle /\ MaskIdle /\ ExcelIdle /\ SplitIdle /\ AggIdle /\ RouteIdle
       /\ SheetIdle
       /\ CapIdle
       /\ LimitIdle
       /\ OrderIdle
       /\ ConcIdle
       /\ ReqIdle

\* The worksheet names of one workbook.
SpecName == InitName /\ [][NameNext]_vars

\* extractRecordsFromSheet on one worksheet.
SpecSheet == InitSheet /\ [][SheetNext]_vars

\* One single-file summarize request.
SpecRoute == InitRoute /\ [][RouteNext]_vars

CapNext ==
    ApplyCap /\ UNCHANGED <<sumVars, maskVars, excelVars, splitVars, aggVars, routeVars,
                            sheetVars, nameVars, limitVars, orderVars, concVars, reqVars>>

InitCap ==
    CapInit /\ SumIdle /\ MaskIdle /\ ExcelIdle /\ SplitIdle /\ AggIdle /\ RouteIdle
       /\ SheetIdle /\ NameIdle
       /\ LimitIdle
       /\ OrderIdle
       /\ ConcIdle
       /\ ReqIdle

\* The cap applied to one content again and again.
SpecCap == InitCap /\ [][CapNext]_vars

LimitNext ==
    \/ LimitByTokens /\ UNCHANGED <<sumVars, maskVars, excelVars, splitVars, aggVars,
                                     routeVars, sheetVars, nameVars, capVars, orderVars, concVars, reqVars>>
    \/ LimitByChars /\ UNCHANGED <<sumVars, maskVars, excelVars, splitVars, aggVars,
                                    routeVars, sheetVars, nameVars, capVars, orderVars, concVars, reqVars>>

InitLimit ==
    LimitInit /\ SumIdle /\ MaskIdle /\ ExcelIdle /\ SplitIdle /\ AggIdle /\ RouteIdle
       /\ SheetIdle /\ NameIdle /\ CapIdle
       /\ OrderIdle
       /\ ConcIdle
       /\ ReqIdle

\* The size-limiting step of one summarizeOne.
SpecLimit == InitLimit /\ [][LimitNext]_vars

ChunkNext ==
    \/ DetectPattern /\ UNCHANGED <<sumVars, maskVars, excelVars, aggVars, routeVars,
                                     sheetVars, nameVars, capVars, limitVars, orderVars, concVars, reqVars>>
    \/ SectionStep /\ UNCHANGED <<sumVars, maskVars, excelVars, aggVars, routeVars,
                                   sheetVars, nameVars, capVars, limitVars, orderVars, concVars, reqVars>>
    \/ SplitReturn /\ UNCHANGED <<sumVars, maskVars, excelVars, aggVars, routeVars,
                                   sheetVars, nameVars, capVars, limitVars, orderVars, concVars, reqVars>>

InitChunk ==
    ChunkInit /\ SumIdle /\ MaskIdle /\ ExcelIdle /\ AggIdle /\ RouteIdle /\ SheetIdle
       /\ NameIdle /\ CapIdle /\ LimitIdle
       /\ OrderIdle
       /\ ConcIdle
       /\ ReqIdle

\* splitByPerson of text-splitter.ts on texts of running record text.
SpecChunk == InitChunk /\ [][ChunkNext]_vars

OrderNext ==
    \/ OrderCall /\ UNCHANGED <<maskVars, excelVars, splitVars, aggVars, routeVars,
                                 sheetVars, nameVars, capVars, limitVars, concVars, reqVars>>
    \/ OrderFirstReturns /\ UNCHANGED <<maskVars, excelVars, splitVars, aggVars, routeVars,
                                         sheetVars, nameVars, capVars, limitVars, concVars, reqVars>>
    \/ OrderAdjustReturns /\ UNCHANGED <<maskVars, excelVars, splitVars, aggVars, routeVars,
                                          sheetVars, nameVars, capVars, limitVars, concVars, reqVars>>
    \/ OrderSettle /\ UNCHANGED <<maskVars, excelVars, splitVars, aggVars, routeVars,
                                   sheetVars, nameVars, capVars, limitVars, concVars, reqVars>>
    \/ BuildExcel /\ UNCHANGED <<maskVars, excelVars, splitVars, aggVars, routeVars,
                                  sheetVars, nameVars, capVars, limitVars, concVars, reqVars>>

InitOrder ==
    OrderInit /\ MaskIdle /\ ExcelIdle /\ SplitIdle /\ AggIdle /\ RouteIdle /\ SheetIdle
       /\ NameIdle /\ CapIdle /\ LimitIdle
       /\ ConcIdle
       /\ ReqIdle

\* processSummaries and then buildExcel on what it returned.
SpecOrder == InitOrder /\ [][OrderNext]_vars

ConcNext ==
    \/ ConcCall /\ UNCHANGED <<sumVars, maskVars, excelVars, splitVars, aggVars, routeVars,
                                sheetVars, nameVars, capVars, limitVars, orderVars, reqVars>>
    \/ ConcTurn /\ UNCHANGED <<sumVars, maskVars, excelVars, splitVars, aggVars, routeVars,
                                sheetVars, nameVars, capVars, limitVars, orderVars, reqVars>>
    \/ ConcReturn /\ UNCHANGED <<sumVars, maskVars, excelVars, splitVars, aggVars, routeVars,
                                  sheetVars, nameVars, capVars, limitVars, orderVars, reqVars>>

InitConc ==
    ConcInit /\ SumIdle /\ MaskIdle /\ ExcelIdle /\ SplitIdle /\ AggIdle /\ RouteIdle
       /\ SheetIdle /\ NameIdle /\ CapIdle /\ LimitIdle /\ OrderIdle
       /\ ReqIdle

\* A handler reads MAX_CONCURRENCY and runs the batch loop with it.
SpecConc == InitConc /\ [][ConcNext]_vars

ReqNext ==
    \/ ReqStart /\ UNCHANGED <<sumVars, maskVars, excelVars, splitVars, routeVars, sheetVars,
                                nameVars, capVars, limitVars, orderVars, concVars>>
    \/ ReqFile /\ UNCHANGED <<sumVars, maskVars, excelVars, splitVars, routeVars, sheetVars,
                               nameVars, capVars, limitVars, orderVars, concVars>>
    \/ ReqCombine /\ UNCHANGED <<sumVars, maskVars, excelVars, splitVars, routeVars, sheetVars,
                                  nameVars, capVars, limitVars, orderVars, concVars>>
    \/ ReqSummaries /\ UNCHANGED <<sumVars, maskVars, excelVars, splitVars, routeVars, sheetVars,
                                    nameVars, capVars, limitVars, orderVars, concVars>>
    \/ ReqWorkbook /\ UNCHANGED <<sumVars, maskVars, excelVars, splitVars, routeVars, sheetVars,
                                   nameVars, capVars, limitVars, orderVars, concVars>>

InitReq ==
    ReqInit /\ SumIdle /\ MaskIdle /\ ExcelIdle /\ SplitIdle /\ RouteIdle /\ SheetIdle
       /\ NameIdle /\ CapIdle /\ LimitIdle /\ OrderIdle /\ ConcIdle

\* One request of /api/process in a multi-file mode.
SpecReq == InitReq /\ [][ReqNext]_vars

InitAgg == AggInit /\ SumIdle /\ MaskIdle /\ ExcelIdle /\ SplitIdle /\ RouteIdle /\ SheetIdle /\ NameIdle
       /\ CapIdle
       /\ LimitIdle
       /\ OrderIdle
       /\ ConcIdle
       /\ ReqIdle

\* One multi-file request up to the combined contents.
SpecAgg == InitAgg /\ [][AggNext]_vars

-----------------------------------------------------------------------------
(* Claims about the orchestrator, checked under Spec *)

SummaryOf(name) == summaries[MapGet(summaries, name)].summary

InFlight == {k \in DOMAIN entries : item[k].st \in {"call1", "call2"}}

\* C1: when processSummaries returns, the returned map has exactly the
\* names of the input: the same size, every input name, no other name.
C1_SameNames ==
    pc = "returned" =>
        /\ Len(summaries) = Len(entries)
        /\ {summaries[k].name : k \in DOMAIN summaries} = {entries[k].name : k \in DOMAIN entries}

C1_Witness ==
    /\ pc = "returned"
    /\ Len(entries) >= 2
    /\ \E k \in DOMAIN summaries : summaries[k].summary.kind = "YoyakuShippai"
    /\ \E k \in DOMAIN summaries : summaries[k].summary.kind = "text"

\* C2: a failed remote call never makes processSummaries throw; the
\* individual whose call failed gets a string beginning with the failure
\* marker, and every individual none of whose calls failed gets the text
\* returned by its own last call (or the fixed fallback text).
C2_FailureIsLocal ==
    /\ failed # {} => pc # "thrown"
    /\ pc = "returned" =>
          \A k \in DOMAIN entries :
             LET s == SummaryOf(entries[k].name) IN
             IF k \in failed THEN s.kind = "YoyakuShippai"
             ELSE entries[k].regexOk =>
                    /\ s.kind \in {"text", "fallback"}
                    /\ s.kind = "text" => s.by = entries[k].name

C2_Witness ==
    /\ pc = "returned"
    /\ maxConcurrency = 2
    /\ Len(entries) >= 3
    /\ 1 \in failed
    /\ SummaryOf(entries[1].name).kind = "YoyakuShippai"
    /\ SummaryOf(entries[3].name).kind = "text"
    /\ SummaryOf(entries[3].name).by = entries[3].name

\* C3: no request of a later batch is in flight until every entry of every
\* earlier batch has its result stored; the batches are the consecutive
\* slices of maxConcurrency entries.
C3_BatchOrder ==
    \A k \in InFlight :
        \A j \in DOMAIN entries :
            (j - 1) \div maxConcurrency < (k - 1) \div maxConcurrency
                => MapHas(summaries, entries[j].name)

C3_Witness ==
    \E k \in InFlight : (k - 1) \div maxConcurrency >= 1

\* C4: at most maxConcurrency remote calls are in flight at any moment,
\* corrective calls included.
C4_InFlightBound == Cardinality(InFlight) <= maxConcurrency

C4_Witness ==
    /\ maxConcurrency >= 2
    /\ Cardinality(InFlight) = maxConcurrency
    /\ \E k \in InFlight : item[k].st = "call2"

\* C5: once the first summary of an entry is known, the entry has made
\* exactly one corrective call if that summary has fewer than 200 or more
\* than 300 characters other than newlines, and none otherwise; it never
\* makes a second corrective call.
C5_OneAdjust ==
    \A k \in DOMAIN entries :
        /\ item[k].adjustCalls <= 1
        /\ item[k].calls <= 2
        /\ item[k].first.kind = "none" => item[k].adjustCalls = 0
        /\ item[k].first.kind # "none" =>
              item[k].adjustCalls =
                 IF item[k].first.chars < 200 \/ item[k].first.chars > 300 THEN 1 ELSE 0

C5_Witness ==
    \E k \in DOMAIN entries :
        /\ item[k].st = "resolved"
        /\ item[k].adjustCalls = 1
        /\ item[k].summary.call = 2
        /\ item[k].summary.chars > 300

\* processSummaries has returned: every entry has its summary, no call is
\* in flight and no closure is unsettled.
ReturnedComplete ==
    /\ pc = "returned"
    /\ InFlight = {}
    /\ \A k \in DOMAIN entries : MapHas(summaries, entries[k].name)

C13_ErrorsItemLocal ==
    /\ pc # "thrown"
    /\ pc = "returned" =>
          /\ \A k \in DOMAIN entries : MapHas(summaries, entries[k].name)
          /\ \A k \in failed : SummaryOf(entries[k].name).kind = "YoyakuShippai"

\* The part of it that holds: a key the remote service rejects gives each
\* entry its failure marker.
C13_RejectedKeyIsLocal ==
    (pc = "returned" /\ Len(entries) >= 2 /\ failed = DOMAIN entries)
       => \A k \in DOMAIN entries : SummaryOf(entries[k].name).kind = "YoyakuShippai"

C13_AllRejected ==
    /\ pc = "returned"
    /\ Len(entries) >= 2
    /\ failed = DOMAIN entries
    /\ \A k \in DOMAIN entries : SummaryOf(entries[k].name).msg = "invalid_api_key"

-----------------------------------------------------------------------------
(* Claims about the privacy mask, checked under SpecMask *)

\* C6: in every request sent, the record body holds no occurrence of the
\* individual's name with its honorific stripped (the name appears only in
\* the name field), for every name and every content.
C6_BodyHidesName ==
    mPc = "sent" =>
        /\ mRequest.who = mName
        /\ StripHonorific_Trailing(mName) # << >> =>
              ~Occurs(StripHonorific_Trailing(mName), mRequest.body)

\* The mask at work: the stripped name occurred in the content and the body
\* sent holds the placeholder in its place.
C6_MaskApplies ==
    /\ mPc = "sent"
    /\ StripHonorific_Trailing(mName) # << >>
    /\ Occurs(StripHonorific_Trailing(mName), mContent)
    /\ Occurs(Placeholder, mRequest.body)
    /\ ~Occurs(StripHonorific_Trailing(mName), mRequest.body)

-----------------------------------------------------------------------------
(* Claims about the extraction, checked under SpecExtract *)

\* C7: for every non-empty input text splitByPerson returns a SectionMap
\* with at least one entry, whether the pattern path, the chunk fallback or
\* the single-record fallback produces it.
C7_NeverEmpty ==
    (sPc = "returned" /\ sText # << >>) => Len(sSections) >= 1

\* The result of the chunk fallback: two chunks, two sections.
C7_Witness ==
    /\ sPc = "returned"
    /\ sText # << >>
    /\ sPath = "chunks"
    /\ Len(sSections) = 2

C7_PatternPath == sPc = "returned" /\ sPath = "pattern" /\ Len(sSections) = 2

C7_SinglePath ==
    /\ sPc = "returned"
    /\ sVariant = "current"
    /\ sPath = "single"
    /\ Len(sMatches) >= 2

\* Characters of a content value that are not the truncation marker.
RECURSIVE SourceLen(_)
SourceLen(toks) ==
    IF toks = << >> THEN 0
    ELSE (IF Head(toks).t = "mark" THEN 0 ELSE Head(toks).n) + SourceLen(Tail(toks))

EndsWithMarker(toks) == toks # << >> /\ toks[Len(toks)] = Marker

Capped(c) ==
    /\ SourceLen(c.toks) <= MAX_CHARS_PER_SECTION
    /\ c.cut => EndsWithMarker(c.toks)

C8_ExcelMerged ==
    /\ xPc = "returned"
    /\ \A j \in DOMAIN xSheets : \A r \in DOMAIN xSheets[j] :
          xSheets[j][r].len <= MAX_CHARS_PER_SECTION
    /\ \E k \in DOMAIN xSections :
          LET c == xSections[k].content IN
          /\ c.cut
          /\ Cardinality({c.toks[j].id : j \in DOMAIN c.toks} \ {0}) >= 2
          /\ SourceLen(c.toks) = MAX_CHARS_PER_SECTION

C8_FallbackCut ==
    /\ sPc = "returned"
    /\ sVariant = "current"
    /\ sPath \in {"chunks", "single"}
    /\ \E k \in DOMAIN sSections : sSections[k].content.cut

\* The legacy splitter has no cap.
C8_LegacyCapped ==
    sVariant = "legacy" => \A k \in DOMAIN sSections : Capped(sSections[k].content)

-----------------------------------------------------------------------------
(* Claims about the multi-file modes, checked under SpecAgg *)

\* The combined content strings of a result, per name.
CombinedOf(result) == {[name |-> result[k].name, combined |-> result[k].combined] :
                       k \in DOMAIN result}

\* C9: for any set of input files the combined content string produced for
\* each name is identical for every ordering of the file list.
C9_OrderIndependent ==
    aPc = "returned" =>
       \A files \in Orderings(aFiles) :
          \A r \in CombineResults(aVariant, ExtractAll(aVariant, files, << >>)) :
             CombinedOf(r) = CombinedOf(aResult)

\* The same for the summarize mode alone and for the merge mode alone.
C9_SummarizeOrderIndependent == aVariant = "summarize" => C9_OrderIndependent

C9_MergeOrderIndependent == aVariant = "merge" => C9_OrderIndependent

\* A name is in two files and has a combined content string.
C9_TwoFiles ==
    /\ aPc = "returned"
    /\ \E k \in DOMAIN aResult : Len(aResult[k].parts) >= 2 /\ aResult[k].combined # << >>

\* The files that extracted and hold the name.
Holders(who) ==
    {k \in DOMAIN aFiles : aFiles[k].ok /\ \E j \in DOMAIN aFiles[k].persons :
                                             aFiles[k].persons[j] = who}

ContentTokens(combined) == SelectSeq(combined, LAMBDA tok : tok.t = "content")

\* C10: a file whose extraction throws is skipped and the request goes on:
\* the aggregated record of each name holds, exactly once each, the content
\* of every file that extracted and holds the name, and nothing of a failed
\* file.
C10_FailedFileSkipped ==
    /\ aPc \in {"idle", "extract", "returned"}
    /\ aPc = "returned" =>
          /\ \A who \in {"A", "B"} :
                (Holders(who) # {}) <=> \E k \in DOMAIN aResult : aResult[k].name = who
          /\ \A k \in DOMAIN aResult :
                LET e == aResult[k] IN
                /\ \A fn \in FileNames :
                      Cardinality({j \in DOMAIN e.parts :
                                     e.parts[j].source = fn
                                     /\ e.parts[j].content = ContentOf(fn, e.name)})
                         = Cardinality({j \in Holders(e.name) : aFiles[j].fileName = fn})
                /\ Len(e.parts) = Cardinality(Holders(e.name))
                /\ e.combined # << >> =>
                      ContentTokens(e.combined)
                         = [j \in DOMAIN e.parts |->
                               [t |-> "content", date |-> << >>,
                                file |-> e.parts[j].content.file,
                                who |-> e.parts[j].content.who]]

\* A failed file between two files that extract, all three holding the name.
C10_Witness ==
    /\ aPc = "returned"
    /\ Len(aFiles) = 3
    /\ aFiles[1].ok /\ ~aFiles[2].ok /\ aFiles[3].ok
    /\ aFiles[1].fileName # aFiles[2].fileName /\ aFiles[3].fileName # aFiles[2].fileName
    /\ \E k \in DOMAIN aResult : aResult[k].name = "A" /\ Len(aResult[k].parts) = 2

\* The number a run of digits stands for.
RECURSIVE DigitsValue(_)
DigitsValue(ds) ==
    IF ds = << >> THEN 0 ELSE DigitsValue(SubSeq(ds, 1, Len(ds) - 1)) * 10 + ds[Len(ds)]

\* The day a file name's date stands for, as year, month and day in one number.
DayOf(fileName) ==
    DigitsValue(fileName.date[1]) * 10000 + DigitsValue(fileName.date[2]) * 100
       + DigitsValue(fileName.date[3])

\* The fragments of one name are in the order of their days when every one
\* has a date, else in the order of their file names.
InDateOrNameOrder(parts) ==
    IF \A j \in DOMAIN parts : parts[j].source.date # << >>
    THEN \A j, l \in DOMAIN parts : j < l => DayOf(parts[j].source) <= DayOf(parts[l].source)
    ELSE \A j, l \in DOMAIN parts :
            j < l => FileNameRank(parts[j].source) <= FileNameRank(parts[l].source)

\* C11: in the aggregation each name's fragments are ordered chronologically
\* by the date of the file name when every fragment has one, otherwise by
\* file name; the combined content lists them in that order, a divider line
\* between them.
C11_FragmentOrder ==
    aPc = "returned" =>
       \A k \in DOMAIN aResult :
          /\ InDateOrNameOrder(aResult[k].parts)
          /\ aResult[k].combined # << >> =>
                /\ ContentTokens(aResult[k].combined)
                      = [j \in DOMAIN aResult[k].parts |->
                            [t |-> "content", date |-> << >>,
                             file |-> aResult[k].parts[j].content.file,
                             who |-> aResult[k].parts[j].content.who]]
                /\ Len(SelectSeq(aResult[k].combined, LAMBDA tok : tok.t = "rule"))
                      = Len(aResult[k].parts) - 1

\* The same for the merge mode alone, whose records are sorted, and for the
\* files given in the order of their names.
C11_MergeFragmentOrder ==
    (/\ aVariant = "merge"
     /\ \A j, l \in DOMAIN aFiles :
           j < l => FileNameRank(aFiles[j].fileName) < FileNameRank(aFiles[l].fileName))
       => C11_FragmentOrder

\* Two dated fragments of one name as the sort leaves them: the 15th before
\* the 2nd of the month, the order of the date strings as text.
C11_SortedAsText ==
    /\ aPc = "returned"
    /\ aVariant = "merge"
    /\ \E k \in DOMAIN aResult :
          /\ Len(aResult[k].parts) = 2
          /\ aResult[k].parts[1].source.stem = "c"
          /\ aResult[k].parts[2].source.stem = "b"

-----------------------------------------------------------------------------
(* Claims about the single-file summarize request, checked under SpecRoute *)

\* The extraction of the file fails: the PDF gives no readable text, or
\* the workbook does not load or holds no record.
ExtractionFails ==
    \/ rFile.kind = "pdf" /\ PdfText(rFile).len < MinTextChars
    \/ rFile.kind = "excel" /\ rFile.excel # "ok"

\* C14: in the single-file summarize mode, when the extraction fails the
\* request ends with an error response that carries a message; no remote
\* model call is issued and no output workbook is produced.
C14_ExtractionFailureEndsRequest ==
    ExtractionFails =>
       /\ rCalls = 0
       /\ ~rWorkbook
       /\ rPc = "done" =>
             /\ rResponse.status >= 400
             /\ rResponse.kind # "workbook"
             /\ rResponse.message # ""

\* A workbook without a record, with the key configured: the request has
\* ended in the handler's catch.
C14_Witness ==
    /\ rPc = "done"
    /\ rKeySet
    /\ rFile.kind = "excel" /\ rFile.excel = "norecords"
    /\ rHandler = "process000"
    /\ rResponse.status = 500

C14_PdfWitness ==
    /\ rPc = "done"
    /\ rKeySet
    /\ rFile.kind = "pdf" /\ ExtractionFails
    /\ rFile.japanese.len > 0
    /\ rResponse.status = 500

\* C15: on the PDF path, text shorter than 100 characters or with more
\* than 10% replacement characters is never handed to splitByPerson: the
\* request fails with an extraction error instead.
C15_NoGarbageSegmented ==
    /\ rSplitInput # NoTextYet =>
          /\ rSplitInput.len >= MinTextChars
          /\ rSplitInput.bad * 10 <= rSplitInput.len
    /\ (rPc = "done" /\ rKeySet /\ rFile.kind = "pdf"
           /\ (PdfText(rFile).len < MinTextChars \/ PdfText(rFile).bad * 10 > PdfText(rFile).len))
          => rResponse.status >= 400

\* The same for the handlers that test the text themselves.
C15_TestingHandlers == rHandler # "process000" => C15_NoGarbageSegmented

C15_GarbageRefused ==
    /\ rPc = "done"
    /\ rHandler = "upload001"
    /\ rText.bad * 10 > rText.len
    /\ rResponse.status = 400

-----------------------------------------------------------------------------
(* Claims about extractRecordsFromSheet, checked under SpecSheet *)

\* The strategies in their order, and what each yields on the worksheet.
StrategyOrder == <<"sheetAsPerson", "structured", "namePatterns">>

YieldOf(k) ==
    IF k = 1 THEN extractSheetAsPerson(wSheet)
    ELSE IF k = 2 THEN extractStructuredRecords(wSheet)
    ELSE extractByNamePatterns(wSheet)

\* C16: extractRecordsFromSheet returns the records of exactly one
\* strategy, the first in the order that yields at least one record, and
\* a later strategy runs only when every earlier one yielded none.
C16_FirstYieldingStrategy ==
    /\ \A k \in DOMAIN wRan :
          /\ wRan[k] = StrategyOrder[k]
          /\ \A j \in 1..(k - 1) : YieldOf(j) = << >>
    /\ wPc = "returned" =>
          IF \E k \in 1..3 : YieldOf(k) # << >>
          THEN LET first == CHOOSE k \in 1..3 :
                               YieldOf(k) # << >> /\ \A j \in 1..(k - 1) : YieldOf(j) = << >>
               IN  wRecords = YieldOf(first) /\ Len(wRan) = first
          ELSE wRecords = << >> /\ Len(wRan) = 3

\* Strategy 2 has returned its records although strategy 3 finds records
\* of its own on the same worksheet.
C16_Witness ==
    /\ wPc = "returned"
    /\ wRan = <<"sheetAsPerson", "structured">>
    /\ wRecords = extractStructuredRecords(wSheet)
    /\ extractByNamePatterns(wSheet) # << >>
    /\ extractByNamePatterns(wSheet) # wRecords

C16_ThirdStrategy ==
    /\ wPc = "returned"
    /\ Len(wRan) = 3
    /\ wRecords # << >>

\* The lines of a content: its pieces between the newlines.
RECURSIVE LinesOf(_, _)
LinesOf(toks, line) ==
    IF toks = << >> THEN {line}
    ELSE IF Head(toks).t = "nl" THEN {line} \cup LinesOf(Tail(toks), << >>)
    ELSE LinesOf(Tail(toks), Append(line, Head(toks)))

\* The worksheet starts with a header row that holds a name column and a
\* content column.
HeaderFirst ==
    /\ wSheet.rows # << >>
    /\ ColumnsOfKind(wSheet.rows[1], "nameHdr") # << >>
    /\ ColumnsOfKind(wSheet.rows[1], "contentHdr") # << >>

\* The content-column cells of row r joined by a space.
RowContent(r) ==
    JoinToks(RowParts(wSheet.rows[r], r, StructuredColumns(wSheet.rows).content, {}), <<Sp>>)

\* The data rows with a person's name and a content that is not empty.
NamedRows ==
    {r \in 2..Len(wSheet.rows) :
        /\ wSheet.rows[r][StructuredColumns(wSheet.rows).name].k \in {"bare", "titled"}
        /\ RowContent(r) # << >>}

\* The record of the name of row r, among the records of strategy 2.
RecordsOfRow(r) ==
    {k \in DOMAIN extractStructuredRecords(wSheet) :
        extractStructuredRecords(wSheet)[k].name
           = ensureHonorific(wSheet.rows[r][StructuredColumns(wSheet.rows).name])}

\* C17: with a header row holding a name column and a content column,
\* strategy 2 gives a record for every data row with a name and a content
\* that are not empty; the content is the row's content-column cells
\* joined by a space, and a row that repeats a name is appended to the
\* record of that name: every such row is one line of exactly one record,
\* and the records hold nothing else.
C17_EveryRowRecorded ==
    (HeaderFirst /\ Len(wRan) >= 2) =>
       /\ \A r \in NamedRows :
             /\ Cardinality(RecordsOfRow(r)) = 1
             /\ \A k \in RecordsOfRow(r) :
                   RowContent(r) \in LinesOf(extractStructuredRecords(wSheet)[k].content, << >>)
       /\ \A k \in DOMAIN extractStructuredRecords(wSheet) :
             LinesOf(extractStructuredRecords(wSheet)[k].content, << >>)
                \subseteq {RowContent(r) : r \in 2..Len(wSheet.rows)}

\* The same for the rows whose content is longer than MinRecordChars.
C17_LongRowsRecorded ==
    (HeaderFirst /\ Len(wRan) >= 2) =>
       /\ \A r \in NamedRows :
             TokLen(RowContent(r)) > MinRecordChars =>
                /\ Cardinality(RecordsOfRow(r)) = 1
                /\ \A k \in RecordsOfRow(r) :
                      RowContent(r) \in LinesOf(extractStructuredRecords(wSheet)[k].content, << >>)
       /\ \A k \in DOMAIN extractStructuredRecords(wSheet) :
             LinesOf(extractStructuredRecords(wSheet)[k].content, << >>)
                \subseteq {RowContent(r) : r \in 2..Len(wSheet.rows)}

\* Two rows of one name, the first with two content cells: one record of
\* two lines.
C17_Appended ==
    /\ HeaderFirst /\ Len(wRan) >= 2
    /\ Len(wSheet.rows) = 3
    /\ wSheet.rows[2] = <<Bare("A"), Note(12), Note(4)>>
    /\ wSheet.rows[3] = <<Titled("A"), Note(12), Blank>>
    /\ Len(wRecords) = 1
    /\ wRecords[1].content
          = <<Txt(22, 12), Sp, Txt(23, 4), Nl(1), Txt(32, 12)>>

-----------------------------------------------------------------------------
(* Claims about the names of the SectionMap, checked under SpecExtract *)

\* Some section of m holds characters of line (or record) k of the input.
KeepsLine(m, k) ==
    \E e \in DOMAIN m : \E j \in DOMAIN m[e].content.toks :
       m[e].content.toks[j].t = "txt" /\ m[e].content.toks[j].id = k

\* The lines of running text that come before the first header line.
UnnamedLines ==
    {k \in DOMAIN sText :
        /\ sText[k].kind = "body"
        /\ \A j \in 1..(k - 1) : sText[j].kind \notin HeaderKinds}

\* No entry of the returned SectionMap has an empty name.
C18_NamesNotEmpty ==
    /\ (sPc = "returned" /\ sVariant = "current") =>
          \A e \in DOMAIN sSections : sSections[e].name # ""
    /\ \A e \in DOMAIN xSections : xSections[e].name # ""

\* C18: every entry of every SectionMap of splitByPerson or
\* extractFromExcel has a name that is not empty, and text for which no
\* name was detected is kept (under the fallback name) and not dropped.
C18_UnnamedTextKept ==
    /\ C18_NamesNotEmpty
    /\ (sPc = "returned" /\ sVariant = "current"
           /\ \A e \in DOMAIN sSections : ~sSections[e].content.cut) =>
          \A k \in UnnamedLines : KeepsLine(sSections, k)

\* Without any header line the text is kept under the fallback name.
C18_FallbackKeeps ==
    (sPc = "returned" /\ sVariant = "current" /\ sPath = "single"
       /\ \A e \in DOMAIN sSections : ~sSections[e].content.cut) =>
       /\ Len(sSections) = 1
       /\ sSections[1].name = "Mibunrui-san"
       /\ \A k \in DOMAIN sText : sText[k].kind = "body" => KeepsLine(sSections, k)

\* Running text ahead of the first of two headers: the pattern path
\* returns without it.
C18_PreambleDropped ==
    /\ sPc = "returned" /\ sVariant = "current" /\ sPath = "pattern"
    /\ Len(sText) = 4
    /\ sText[1] = BodyLine(60)
    /\ ~KeepsLine(sSections, 1)

\* A short chunk next to a long one: the chunk fallback returns without it.
C18_ShortChunkDropped ==
    /\ sPc = "returned" /\ sVariant = "current" /\ sPath = "chunks"
    /\ \E k \in UnnamedLines : ~KeepsLine(sSections, k)

-----------------------------------------------------------------------------
(* Claims about the worksheet names, checked under SpecName *)

\* At most 31 characters, none of them forbidden.
ValidSheetName(name) ==
    /\ StrLen(name) <= SheetNameChars
    /\ \A j \in DOMAIN name : name[j].c \notin Forbidden

\* C19: after any sequence of assignments within one workbook the
\* worksheet names are pairwise distinct, at most 31 characters long and
\* free of the forbidden characters, also when distinct names become
\* equal by the stripping or the truncation.
C19_DistinctValidNames ==
    /\ ~nClash
    /\ \A name \in nNames : ValidSheetName(name)

\* The length and the characters alone.
C19_ValidNames == \A name \in nNames : ValidSheetName(name)

\* The merge modes, without a base name that ends in a circled digit.
C19_MergeDistinct ==
    (nVariant = "merge" /\ \A b \in BaseNames : b[Len(b)].c = "circled1" => nCalls[b] = 0)
       => ~nClash

\* excel-generator.ts: two base names that differ by a forbidden
\* character have got the same worksheet name.
C19_SameAfterStripping ==
    /\ nVariant = "generator"
    /\ nClash
    /\ nCalls = [b \in BaseNames |->
                   IF b \in {ShortName, <<Run("a", 1), Run("/", 1)>>} THEN 1 ELSE 0]

\* A base name that needs neither stripping nor truncation.
PlainBase(base) ==
    /\ StrLen(base) <= CleanNameChars
    /\ \A j \in DOMAIN base : base[j].c \notin Forbidden

\* What the k-th call with one base name is said to return.
NumberedName(base, k) ==
    IF k = 1 THEN base ELSE Cat(base, CircledOrParen(k - 1))

CountedAlone(base) ==
    \A b \in BaseNames :
       (b # base /\ KeyOf(nVariant, b) = KeyOf(nVariant, base)) => nCalls[b] = 0

C20_LastCircled ==
    /\ nLast.base = ShortName
    /\ nLast.k = 21
    /\ nLast.name = <<Run("a", 1), Run("circled20", 1)>>

-----------------------------------------------------------------------------
(* Claims about the cap of one record, checked under SpecCap *)

\* C21: the truncation to the cap of 10,000 characters is idempotent:
\* applied to its own output it returns that output unchanged, and applied
\* to a content of at most 10,000 characters it returns the content
\* unchanged.
C21_CapIdempotent ==
    /\ tApplied >= 2 => tContent.toks = tPrev.toks
    /\ (tApplied >= 1 /\ ContentLen(tPrev) <= MAX_CHARS_PER_SECTION) =>
          tContent.toks = tPrev.toks

\* The cap was applied to a content it had cut before.
C21_Witness ==
    /\ tApplied = 2
    /\ tContent.cut
    /\ ContentLen(tContent) = MAX_CHARS_PER_SECTION + MarkerLen
    /\ tContent.toks = Append(Prefix(tContent.toks, MAX_CHARS_PER_SECTION), Marker)

\* The cap has left a content of exactly 10,000 characters as it was.
C21_ExactlyAtCap ==
    /\ tApplied = 1
    /\ ContentLen(tPrev) = MAX_CHARS_PER_SECTION
    /\ tContent = tPrev

-----------------------------------------------------------------------------
(* Claims about the size limit of summarizeOne, checked under SpecLimit *)

\* C27: after the size-limiting step the content sent to the model, with
\* the truncation notice, has an estimated token cost of at most the
\* input budget of 120,000 tokens, for every input content.
C27_WithinBudget ==
    lPc = "limited" => estimateTokens(lContent) <= MAX_INPUT_TOKENS

\* The same when the cut falls at the least cut point, 100 characters
\* before the character limit.
C27_WithinBudgetAtLeastCut ==
    (lPc = "limited" /\ lastIndexOf(Sub(lInput, MAX_INPUT_CHARS), "period") < 0
        /\ lastIndexOf(Sub(lInput, MAX_INPUT_CHARS), "newline") < 0)
       => estimateTokens(lContent) <= MAX_INPUT_TOKENS

\* A content over the budget was cut at a full stop just before the
\* character limit and got the notice.
C27_CutAtPeriod ==
    /\ lPc = "limited"
    /\ estimateTokens(lInput) > MAX_INPUT_TOKENS
    /\ lContent = Cat(<<Run("jp", MAX_INPUT_CHARS - 1)>>, TokenNotice)

-----------------------------------------------------------------------------
(* Claims about extractFromExcel, checked under SpecExtract *)

\* Some worksheet holds a record with a name and a content.
SomeUsableRecord ==
    \E k \in DOMAIN xSheets : \E j \in DOMAIN xSheets[k] :
       xSheets[k][j].name # "" /\ xSheets[k][j].len > 0

\* C22: extractFromExcel never returns an empty SectionMap: when no
\* worksheet yields a record with a name and a content it fails with the
\* no-records error.
C22_NoEmptyMap ==
    /\ xPc = "returned" => Len(xSections) >= 1
    /\ (xPc \in {"returned", "thrown"} /\ ~SomeUsableRecord) => xPc = "thrown"

\* Records without a name or without a content only: the error.
C22_Witness ==
    /\ xPc = "thrown"
    /\ Len(xSheets) >= 2
    /\ \A k \in DOMAIN xSheets : xSheets[k] # << >>
    /\ ~SomeUsableRecord

\* The error is never raised when some record can be used.
C22_ErrorOnlyThen == xPc = "thrown" => ~SomeUsableRecord

-----------------------------------------------------------------------------
(* Claims about the whole-sheet strategy, checked under SpecSheet *)

\* The cells of the first rows and columns that look like a person's name.
NameCells ==
    {rc \in (1..Len(wSheet.rows)) \X (1..NameSearchColumns) :
        /\ rc[1] <= HeaderSearchRows
        /\ rc[2] \in DOMAIN wSheet.rows[rc[1]]
        /\ isLikelyPersonName(wSheet.rows[rc[1]][rc[2]])}

\* The names a record of the whole-sheet strategy may be keyed by: the
\* label when it is name-like, else a name found in the first cells, with
\* the honorific.
PersonNamesOfSheet ==
    IF isLikelyPersonName(wSheet.name) THEN {ensureHonorific(wSheet.name)}
    ELSE {ensureHonorific(wSheet.rows[rc[1]][rc[2]]) : rc \in NameCells}

\* The whole-sheet strategy has accepted the worksheet.
SheetAccepted == wPc = "returned" /\ wRan = <<"sheetAsPerson">>

\* C23: when the whole-sheet strategy accepts a worksheet, the record is
\* keyed by the personal name found in the label or, when the label is
\* not name-like, in the first cells of the sheet (with the honorific),
\* and its content is the other cell text, cells joined by spaces and
\* rows by newlines.
C23_KeyedByPersonName ==
    SheetAccepted =>
       /\ Len(wRecords) = 1
       /\ wRecords[1].name \in PersonNamesOfSheet
       /\ wRecords[1].content
             = JoinToks(SheetLines(wSheet.rows, 1, {wRecords[1].name, wSheet.name.who}),
                        <<Nl(1)>>)

\* The same for a worksheet whose label is name-like.
C23_LabelNamed ==
    (SheetAccepted /\ isLikelyPersonName(wSheet.name)) =>
       /\ Len(wRecords) = 1
       /\ wRecords[1].name = ensureHonorific(wSheet.name)
       /\ wRecords[1].content
             = JoinToks(SheetLines(wSheet.rows, 1, {wRecords[1].name, wSheet.name.who}),
                        <<Nl(1)>>)

\* A worksheet named after a month with a name in its first cell: the
\* record is keyed by the month.
C23_KeyedByLabel ==
    /\ SheetAccepted
    /\ wSheet.name.who = "2024-04"
    /\ wSheet.rows[1][1] = Titled("A")
    /\ wRecords[1].name = "2024-04-sama"

-----------------------------------------------------------------------------
(* Claims about the choice of the pattern family, checked under SpecExtract *)

\* The families of the splitter that runs, in rank order.
FamiliesOf(v) == IF v = "current" THEN 1..6 ELSE 1..4

\* The number of validated matches (name length 2 to 49) of family f.
ValidCount(v, f, text) ==
    Len(SelectSeq(MatchesOf(v, f, text), LAMBDA m : m.len > 1 /\ m.len < MaxNameChars))

\* Family f has the most validated matches and is the earliest such.
MostValidMatches(v, f, text) ==
    IF \A g \in FamiliesOf(v) : ValidCount(v, g, text) = 0 THEN f = 0
    ELSE /\ f \in FamiliesOf(v)
         /\ \A g \in FamiliesOf(v) :
               /\ ValidCount(v, g, text) <= ValidCount(v, f, text)
               /\ g < f => ValidCount(v, g, text) < ValidCount(v, f, text)

\* C24: splitByPerson segments with the pattern family that has the most
\* validated matches, the earliest in rank order on a tie; it does not
\* stop at the first family that matches at all.
C24_MostValidatedFamily ==
    sPc \in {"sections", "returned"} => MostValidMatches(sVariant, sFamily, sText)

\* The same for splitByPerson of text-splitter.ts alone.
C24_CurrentMostValidated ==
    (sPc \in {"sections", "returned"} /\ sVariant = "current") =>
       /\ MostValidMatches(sVariant, sFamily, sText)
       /\ sFamily # 0 => sMatches = ValidMatches(sFamily, sText)

\* text-splitter.ts has passed over the first family, which matches, for
\* a later one with more matches.
C24_LaterFamilyChosen ==
    /\ sPc = "sections" /\ sVariant = "current"
    /\ sFamily > 1
    /\ ValidCount("current", 1, sText) >= 1

\* The legacy splitter has stopped at the first family that matches
\* although a later one has more matches.
C24_LegacyStopsAtFirst ==
    /\ sPc = "sections" /\ sVariant = "legacy"
    /\ sFamily = 1
    /\ ValidCount("legacy", 2, sText) > ValidCount("legacy", 1, sText)

-----------------------------------------------------------------------------
(* Claims about the chunk fallback, checked under SpecChunk *)

\* The chunks of the text that are longer than MinChunkChars.
LongChunks ==
    LET chunks == SplitChunks(TextToks(sText, 1), << >>)
    IN  {k \in DOMAIN chunks : TokLen(TrimToks(chunks[k])) > MinChunkChars}

\* The name the claim gives chunk k: the text up to an honorific in its
\* first lines, or else the ordinal fallback name.
ChunkNameOf(k) ==
    LET chunks == SplitChunks(TextToks(sText, 1), << >>)
        found == ChunkName(sText, TrimToks(chunks[k]), NameSearchLines)
    IN  IF found = "" THEN "Mibunrui" \o ToString(k) \o "-san" ELSE found

\* C25: when the chunk fallback applies, each chunk longer than 50
\* characters becomes its own entry of the returned SectionMap, named
\* from its first lines or by the ordinal fallback name, so that the
\* number of entries equals the number of such chunks.
C25_EntryPerChunk ==
    (sPc = "returned" /\ sPath = "chunks") =>
       /\ Len(sSections) = Cardinality(LongChunks)
       /\ \A k \in LongChunks : SecHas(sSections, ChunkNameOf(k))

\* The same when the long chunks have different names.
C25_DistinctlyNamedChunks ==
    (sPc = "returned" /\ sPath = "chunks"
        /\ \A j, k \in LongChunks : j # k => ChunkNameOf(j) # ChunkNameOf(k)) =>
       /\ Len(sSections) = Cardinality(LongChunks)
       /\ \A k \in LongChunks : SecHas(sSections, ChunkNameOf(k))

\* Two long chunks that start with the same name: one entry, and the
\* text of the first chunk is not in it.
C25_ChunkOverwritten ==
    /\ sPc = "returned" /\ sPath = "chunks"
    /\ sText = <<MentionLine("A", 60), GapLine, MentionLine("A", 60)>>
    /\ Len(sSections) = 1
    /\ ~KeepsLine(sSections, 1)

\* Two long chunks without any name: two entries with ordinal names.
C25_OrdinalNames ==
    /\ sPc = "returned" /\ sPath = "chunks"
    /\ Len(sSections) = 2
    /\ sSections[1].name = "Mibunrui1-san"
    /\ sSections[2].name = "Mibunrui2-san"

-----------------------------------------------------------------------------
(* Claims about a name that occurs again, checked under SpecExtract *)

\* The contents cs, in their order, each after a blank line from the second on.
RECURSIVE JoinedByBlankLines(_)
JoinedByBlankLines(cs) ==
    IF Len(cs) = 1 THEN cs[1]
    ELSE JoinContent(JoinedByBlankLines(SubSeq(cs, 1, Len(cs) - 1)), cs[Len(cs)])

\* The matches handled so far whose section is stored under `name`.
RECURSIVE StoredMatches(_, _)
StoredMatches(name, upTo) ==
    IF upTo = 0 THEN << >>
    ELSE LET c == Content(cleanContent(SectionText(sText, sMatches, upTo)))
         IN  StoredMatches(name, upTo - 1) \o
                (IF sMatches[upTo].name = name /\ sMatches[upTo].len >= 2
                       /\ ContentLen(c) >= MinContentChars
                 THEN <<c>> ELSE << >>)

\* The records of the worksheets handled so far that are stored under `name`.
RECURSIVE StoredRecords(_, _, _)
StoredRecords(name, recs, from) ==
    IF recs = << >> THEN << >>
    ELSE (IF Head(recs).name = name /\ Head(recs).len > 0
          THEN <<Content(<<Txt(from, Head(recs).len)>>)>> ELSE << >>)
         \o StoredRecords(name, Tail(recs), from + 1)

RECURSIVE RecordsOfSheets(_, _)
RecordsOfSheets(sheets, upTo) ==
    IF upTo = 0 THEN << >> ELSE RecordsOfSheets(sheets, upTo - 1) \o sheets[upTo]

SplitterInLoop ==
    /\ sVariant = "current"
    /\ UsesMatches
    /\ sPc = "sections" \/ (sPc = "returned" /\ sPath = "pattern")

\* C26: when a name occurs again, at a later boundary of the same text or
\* in a later worksheet, its new content is appended to what is stored
\* for the name after a blank line, and what is stored is never
\* overwritten: at every moment the content of a name is all the contents
\* found for it so far, in their order, joined by blank lines (under the
\* cap of MAX_CHARS_PER_SECTION characters).
C26_AppendedNotOverwritten ==
    /\ SplitterInLoop =>
          \A name \in {sMatches[k].name : k \in DOMAIN sMatches} :
             LET cs == StoredMatches(name, sI - 1)
             IN  IF cs = << >> THEN ~SecHas(sSections, name)
                 ELSE /\ SecHas(sSections, name)
                      /\ SecGet(sSections, name) = Truncate(JoinedByBlankLines(cs))
    /\ xPc \in {"sheets", "returned"} =>
          \A name \in {"A", "B"} :
             LET cs == StoredRecords(name, RecordsOfSheets(xSheets, xNext - 1), 1)
             IN  IF cs = << >> THEN ~SecHas(xSections, name)
                 ELSE /\ SecHas(xSections, name)
                      /\ SecGet(xSections, name) = Truncate(JoinedByBlankLines(cs))

\* A text in which the name of the first section comes back at the third
\* boundary: both contents are in the one entry, a blank line between.
C26_Witness ==
    /\ SplitterInLoop
    /\ sPc = "returned"
    /\ Len(sMatches) = 2
    /\ sMatches[1].name = sMatches[2].name
    /\ Len(StoredMatches(sMatches[1].name, 2)) = 2
    /\ Len(sSections) = 1
    /\ \E j \in DOMAIN sSections[1].content.toks : sSections[1].content.toks[j] = Nl(2)

\* A name of the first worksheet that comes back in the second one.
C26_LaterSheet ==
    /\ xPc = "returned"
    /\ Len(xSheets) = 2
    /\ Len(StoredRecords("A", xSheets[1], 1)) = 1
    /\ Len(StoredRecords("A", xSheets[2], 1)) = 1
    /\ KeepsLine(xSections, 1)
    /\ \E k \in DOMAIN xSections :
          \E j \in DOMAIN xSections[k].content.toks : xSections[k].content.toks[j] = Nl(2)

\* The new content did not fit under the cap: what was stored is kept.
C26_NewContentCut ==
    /\ xPc = "returned"
    /\ Len(StoredRecords("A", RecordsOfSheets(xSheets, Len(xSheets)), 1)) = 2
    /\ SecGet(xSections, "A").cut
    /\ KeepsLine(xSections, 1)

-----------------------------------------------------------------------------
(* Claims about the order of the results, checked under SpecOrder *)

\* C28: the map returned by processSummaries lists the names in the order
\* of the input SectionMap, whatever order the remote calls of a batch
\* complete in, and the worksheets of the workbook follow that order.
C28_InputOrder ==
    /\ pc = "returned" =>
          /\ Len(summaries) = Len(entries)
          /\ \A k \in DOMAIN summaries : summaries[k].name = entries[k].name
    /\ oBuilt => oSheets = [k \in DOMAIN entries |-> entries[k].name]

\* The workbook of a run in which a later entry of a batch completed
\* before an earlier one.
C28_Witness ==
    /\ oBuilt
    /\ Len(entries) >= 2
    /\ Len(oSheets) = Len(entries)
    /\ \E a, b \in DOMAIN oDone : a < b /\ oDone[a] > oDone[b]

-----------------------------------------------------------------------------
(* Claims about the concurrency setting, checked under SpecConc *)

\* C29: processSummaries terminates and returns one result per input name
\* for every concurrency value the handlers can pass, 0, negative numbers
\* and NaN included: the loop never needs more turns than there are
\* entries, and what it returns has a result for every entry.
C29_TerminatesWithAll ==
    /\ cTurns <= cN
    /\ cPc = "returned" => cOut = [k \in 1..cN |-> k]

\* The same for the settings that parse to a number of at least 1.
C29_PositiveTerminatesWithAll ==
    (cPc \in {"loop", "returned"} /\ ~cConc.nan /\ cConc.v >= 1) =>
        /\ cTurns <= cN
        /\ cPc = "returned" => cOut = [k \in 1..cN |-> k]

\* NaN: the first batch is empty, i becomes NaN, the loop ends and an
\* empty map is returned.
C29_NaNReturnsNothing ==
    /\ cPc = "returned"
    /\ cConc.nan
    /\ cN >= 2
    /\ cTurns = 1
    /\ cOut = << >>

\* 0: after a turn the loop is where it was, with i = 0 and nothing stored.
C29_ZeroNeverAdvances ==
    /\ cPc = "loop"
    /\ cConc = Num(0)
    /\ cN >= 1
    /\ cTurns = MaxTurns
    /\ cI = Num(0)
    /\ cOut = << >>

\* A negative number: the first batch is all entries but the last ones,
\* i goes down from there and the last entry never gets a result.
C29_NegativeNeverEnds ==
    /\ cPc = "loop"
    /\ cConc = Num(-1)
    /\ cN = 3
    /\ cTurns = MaxTurns
    /\ cI = Num(-MaxTurns)
    /\ cOut = <<1, 2>>

-----------------------------------------------------------------------------
(* Claims about a request whose files all fail, checked under SpecReq *)

\* The extraction of every uploaded file was tried and failed.
AllFilesFailed ==
    /\ Len(aFiles) >= 1
    /\ aNext > Len(aFiles)
    /\ \A k \in DOMAIN aFiles : ~aFiles[k].ok

\* C30: in the multi-file modes, when every uploaded file fails
\* extraction the request still completes without an error response: no
\* remote call is made and the workbook holds the overview sheet and no
\* individual worksheet.
C30_AllFailedStillAnswers ==
    AllFilesFailed =>
        /\ qResponse \in {"none", "file"}
        /\ qPc # "done" => ENABLED ReqNext
        /\ qCalls = << >>
        /\ qPc = "done" => qSheets = <<"overview">>

\* A summarizing request of two files that both failed, answered.
C30_Witness ==
    /\ AllFilesFailed
    /\ aVariant = "summarize"
    /\ Len(aFiles) = 2
    /\ qPc = "done"
    /\ qResponse = "file"
    /\ qSheets = <<"overview">>

\* The same in the merge mode.
C30_MergeAnswered ==
    /\ AllFilesFailed
    /\ aVariant = "merge"
    /\ qPc = "done"
    /\ qResponse = "file"
    /\ qSheets = <<"overview">>

====
